---- MODULE Spec2Model ----
(***************************************************************************)
(* Model of the per-connection HTTP/1.x engine of hyper (async draft):     *)
(*   src/src/http/conn.rs     Conn::on_data, Lend, Lease                   *)
(*   src/src/http/h1/parse.rs parse                                        *)
(*   src/src/http/h1/write.rs HttpWriter                                   *)
(*   src/src/http/h1/read.rs  HttpReader (chunked), read_chunk_size        *)
(*   src/src/server/response.rs Response                                   *)
(*   src/src/http/mod.rs      should_keep_alive                            *)
(*   src/src/server/conn.rs   handle, do_parse                             *)
(*                                                                         *)
(* Bytes are abstracted to symbols.  "A" and "B" are the request lines of  *)
(* two different requests, "h" is a byte that may occur inside a head or   *)
(* a body, "N" is the empty line that ends a head, "X" is a byte that is   *)
(* illegal inside a head, and "K" is a run of BigRun "h" bytes that is     *)
(* kept as one element so that buffers around MAX_BUFFER_SIZE bytes stay   *)
(* representable.  All lengths and offsets are counted in bytes.           *)
(*                                                                         *)
(* A panic inside on_data (panic!, expect, unimplemented!) unwinds the     *)
(* reactor thread that owns the connection: the assignments made before it *)
(* are kept in the state, `panicked` records the message, and no further   *)
(* step of that connection is taken.                                       *)
(***************************************************************************)
EXTENDS Integers, Sequences, FiniteSets, TLC

VARIABLES
    state,      \* Conn.state: "Parsing" | "Handling" | "Closed"
    buffer,     \* Conn.buffer: the Vec<u8> inside the Cursor
    position,   \* Conn.buffer: the Cursor position (byte offset)
    transfer,   \* Conn.transfer: the Lend, [tag, chan]; chan = Transfers
                \* sitting in the return channel of the current Receiver
    held,       \* number of live Lease values whose inner is Some
    closes,     \* number of Transfer::close() calls made by the connection
    calls,      \* history: the handler calls made so far, in order
    last,       \* history: what the most recent on_data did
    received,   \* history: the bytes delivered so far, in order
    heads_in,   \* history: number of complete heads in `received`
    events,     \* history: number of on_data events delivered so far
    panicked,   \* "none", or the message of the panic that unwound on_data
    ltrace,     \* history of the Lend-only specification: the calls made
    resp,       \* the Response of the request in flight: phase, version,
                \* status, headers
    writer,     \* the HttpWriter (Response.body, or one on its own)
    out,        \* the body-level bytes the HttpWriter gave to its inner writer
    heads,      \* the heads written through the Response, in order
    t_closes,   \* the Transfer::close() calls made through the Response
    w_hist,     \* history: the write calls made on the HttpWriter
    srv,        \* server::conn::handle: its parse buffer, the request it
                \* parsed, the error it failed with, the handler calls made
    pt,         \* the parser on its own: a buffer that arrives in two
                \* parts and the results of the parse calls on it
    rd,         \* read_chunk_size on its own: the bytes of the underlying
                \* reader and the result of the call made on them
    hr          \* an HttpReader on its own: its kind, the unread rest of
                \* the underlying reader, its remaining count, and the
                \* history of the read calls made on it

resp_vars == <<resp, writer, out, heads, t_closes, w_hist>>

vars == <<state, buffer, position, transfer, held, closes, calls, last,
          received, heads_in, events, panicked, ltrace, resp_vars, srv, pt,
          rd, hr>>

conn_vars == <<state, buffer, position, closes, calls, last, received, heads_in,
               events>>

----------------------------------------------------------------------------
(* Bounds of the model.                                                    *)

MaxEvents == 3

MaxOps == 6

----------------------------------------------------------------------------
(* Program constants.                                                      *)

MAX_BUFFER_SIZE == 8192 + 4096 * 100

\* The run length of "K": two bytes short of the bound, so that a request
\* line plus one run is one byte below it.
BigRun == MAX_BUFFER_SIZE - 2

Methods == {"A", "B"}

\* The bytes of a head as the parser tells them apart: "A" and "B" end a
\* request line, "h" ends a header line, "N" is the LF of the empty line
\* and "n" the CR before it, "c" is a byte inside a line, "X" a byte no
\* request line starts with, "K" a run of header bytes.
Byte == {"A", "B", "h", "N", "X", "K", "c", "n"}

Weight(b) == IF b = "K" THEN BigRun ELSE 1

\* slice.len() / Vec::len(): the length in bytes.
RECURSIVE len(_)
len(s) == IF s = <<>> THEN 0 ELSE Weight(Head(s)) + len(Tail(s))

\* &data[n..]: the bytes from byte offset n on (n lies on an element border).
RECURSIVE from_offset(_, _)
from_offset(s, n) ==
    IF s = <<>> \/ n < Weight(Head(s)) THEN s
    ELSE from_offset(Tail(s), n - Weight(Head(s)))

\* The chunks the reactor delivers.
Chunks ==
    { <<>>, <<"A">>, <<"B">>, <<"N">>, <<"h">>, <<"X">>, <<"K">>,
      <<"A", "N">>, <<"B", "N">>, <<"A", "N", "h">>, <<"h", "B", "N">> }

----------------------------------------------------------------------------
(* The message parser: http::h1::parse over httparse::Request.             *)

NoResult == [tag |-> "None", head |-> <<>>, len |-> 0, err |-> "none"]

\* Index of the element at or after i that ends the scan of the header
\* block: the LF of the empty line, or the first byte that cannot stand
\* where it does (a byte no header line holds, a CR that no LF follows, a
\* line that does not end as a header line); 0 if the buffer ends first.
RECURSIVE scan(_, _)
scan(buf, i) ==
    IF i > Len(buf) THEN 0
    ELSE IF buf[i] \in {"N", "X"} \cup Methods THEN i
    ELSE IF buf[i] = "n"
    THEN IF i = Len(buf) THEN 0
         ELSE IF buf[i + 1] = "N" THEN i + 1 ELSE i
    ELSE IF buf[i] = "c" /\ i < Len(buf) /\ buf[i + 1] \notin {"c", "h", "K"}
    THEN i
    ELSE scan(buf, i + 1)

\* A Complete(len) that counts the whole buffer.
Complete_len_whole(buf, i) == len(buf)

\* httparse::Status::Complete(len): the bytes up to and including the empty
\* line at element i.
Complete_len(buf, i) == len(SubSeq(buf, 1, i))

\* A parser for which a buffer without the empty line is a whole head.
Partial_as_complete(buf) ==
    [tag |-> "Some", head |-> buf, len |-> len(buf), err |-> "none"]

\* httparse::Status::Partial => None
Partial(buf) == NoResult

\* The number of bytes in the empty lines at the start of the buffer (LF,
\* or CR LF), which httparse::Request::parse skips before the request
\* line.
RECURSIVE skip_empty_lines(_)
skip_empty_lines(buf) ==
    IF buf # <<>> /\ Head(buf) = "N"
    THEN 1 + skip_empty_lines(Tail(buf))
    ELSE IF Len(buf) >= 2 /\ buf[1] = "n" /\ buf[2] = "N"
    THEN 2 + skip_empty_lines(Tail(Tail(buf)))
    ELSE 0

\* <httparse::Request as Parse>::parse: empty lines before the request line
\* are skipped and counted in the length of a complete head; a buffer that
\* ends inside a line, or between the CR and the LF of an empty line, is
\* Partial.
Request_parse(buf) ==
    LET k    == skip_empty_lines(buf)
        ends == { i \in (k + 1)..Len(buf) : buf[i] # "c" }
    IN  IF ends = {} \/ (buf[k + 1] = "n" /\ k + 1 = Len(buf))
        THEN Partial(buf)
        ELSE LET f == CHOOSE e \in ends : \A j \in ends : e <= j IN
             IF buf[k + 1] = "n"
             THEN [tag |-> "Err", head |-> <<>>, len |-> 0, err |-> "Header"]
             ELSE IF buf[f] \notin Methods
             THEN [tag |-> "Err", head |-> <<>>, len |-> 0, err |-> "Method"]
             ELSE LET i == scan(buf, f + 1) IN
                  IF i = 0 THEN Partial(buf)
                  ELSE IF buf[i] = "N"
                  THEN [tag |-> "Some", head |-> SubSeq(buf, k + 1, i),
                        len |-> Complete_len(buf, i), err |-> "none"]
                  ELSE [tag |-> "Err", head |-> <<>>, len |-> 0,
                        err |-> "Header"]

\* http::h1::parse
parse(buf) ==
    IF Len(buf) = 0 THEN NoResult ELSE Request_parse(buf)

\* No buffer was drawn yet.  `step` counts the parse calls made; `first`,
\* `whole` and `more` are their results.
NoParse ==
    [step |-> 0, input |-> <<>>, split |-> 0, extra |-> <<>>,
     first |-> NoResult, whole |-> NoResult, more |-> NoResult]

----------------------------------------------------------------------------
(* The Transfer lease: Lend<T> and Lease<T>.                               *)

Owned == [tag |-> "Owned", chan |-> 0]

\* Lend::claim that takes the Transfer back without asking the channel.
claim_steals(l) ==
    [lend |-> [tag |-> "Owned", chan |-> l.chan], some |-> TRUE]

\* Lend::claim: take the Transfer out of the return channel if it is there,
\* then answer whether the Lend is Owned.
claim(l) ==
    LET got   == l.tag = "Lent" /\ l.chan > 0
        after == IF got THEN [tag |-> "Owned", chan |-> l.chan - 1] ELSE l
    IN  [lend |-> after, some |-> after.tag = "Owned"]

\* Lend::lease that hands out a Lease also when the Lend is already Lent.
lease_unchecked(l) ==
    [lend |-> [tag |-> "Lent", chan |-> 0], ok |-> TRUE]

\* Lend::lease: install a fresh return channel; ok is FALSE when the Lend was
\* not Owned, where the code panics with "already leased".
lease(l) ==
    [lend |-> [tag |-> "Lent", chan |-> 0], ok |-> l.tag = "Owned"]

\* Drop for Lease: inner.take().map(|t| tx.send(t)).
Lease_drop ==
    /\ held > 0
    /\ held' = held - 1
    /\ transfer' = [transfer EXCEPT !.chan = @ + 1]

----------------------------------------------------------------------------
(* HttpWriter: the body encoders of src/src/http/h1/write.rs.              *)
(* Body-level bytes are one-character strings; "CR" and "LF" stand for     *)
(* \r and \n.  A writer is [kind, rem, cap, live]: rem is the remaining    *)
(* count of a SizedWriter, cap the count it was built with (history), and  *)
(* live tells whether the value exists: "no" before it is built, "yes",    *)
(* then "ended" (consumed by end()), "dropped", or "taken" (consumed by    *)
(* into_inner()).                                                          *)

CRLF == <<"CR", "LF">>

HexDigits == <<"0", "1", "2", "3", "4", "5", "6", "7",
               "8", "9", "A", "B", "C", "D", "E", "F">>

\* format!("{:X}", n): upper-case hexadecimal without leading zeros.
RECURSIVE UpperHex(_)
UpperHex(n) ==
    IF n < 16 THEN <<HexDigits[n + 1]>>
    ELSE UpperHex(n \div 16) \o <<HexDigits[(n % 16) + 1]>>

ThroughWriter == [kind |-> "Through", rem |-> 0, cap |-> 0, live |-> "yes"]
ChunkedWriter == [kind |-> "Chunked", rem |-> 0, cap |-> 0, live |-> "yes"]
EmptyWriter   == [kind |-> "Empty", rem |-> 0, cap |-> 0, live |-> "yes"]
SizedWriter(n) == [kind |-> "Sized", rem |-> n, cap |-> n, live |-> "yes"]
NoWriter      == [kind |-> "Empty", rem |-> 0, cap |-> 0, live |-> "no"]

\* The SizedWriter arm of write without the truncation to the remaining count.
SizedWrite_all(w, msg) ==
    [w |-> [w EXCEPT !.rem = IF Len(msg) > w.rem THEN 0 ELSE w.rem - Len(msg)],
     emit |-> msg, ret |-> Len(msg)]

\* The SizedWriter arm of <HttpWriter as Write>::write.
SizedWrite(w, msg) ==
    IF Len(msg) > w.rem
    THEN [w |-> [w EXCEPT !.rem = 0], emit |-> SubSeq(msg, 1, w.rem),
          ret |-> w.rem]
    ELSE [w |-> [w EXCEPT !.rem = w.rem - Len(msg)], emit |-> msg,
          ret |-> Len(msg)]

\* <HttpWriter as Write>::write: the writer afterwards, the bytes given to
\* the inner writer, and the count returned.
HttpWriter_write(w, msg) ==
    CASE w.kind = "Through" -> [w |-> w, emit |-> msg, ret |-> Len(msg)]
      [] w.kind = "Chunked" ->
            [w |-> w,
             emit |-> UpperHex(Len(msg)) \o CRLF \o msg \o CRLF,
             ret |-> Len(msg)]
      [] w.kind = "Sized"   -> SizedWrite(w, msg)
      [] w.kind = "Empty"   -> [w |-> w, emit |-> <<>>, ret |-> 0]

\* HttpWriter::end: write(&[]), flush, into_inner (which forgets self, so
\* that Drop does not run).
HttpWriter_end(w) ==
    LET r == HttpWriter_write(w, <<>>) IN
    [w |-> [r.w EXCEPT !.live = "ended"], emit |-> r.emit]

\* HttpWriter::into_inner: the inner writer is read out and the HttpWriter
\* forgotten, so that neither end() nor Drop writes for it.
HttpWriter_into_inner(w) ==
    [w |-> [w EXCEPT !.live = "taken"], emit |-> <<>>]

\* Drop for HttpWriter: a ChunkedWriter writes &[]; the others do nothing.
HttpWriter_drop(w) ==
    IF w.kind = "Chunked"
    THEN [w |-> [w EXCEPT !.live = "dropped"],
          emit |-> HttpWriter_write(w, <<>>).emit]
    ELSE [w |-> [w EXCEPT !.live = "dropped"], emit |-> <<>>]

----------------------------------------------------------------------------
(* HttpReader::ChunkedReader: the chunked decoder of                       *)
(* src/src/http/h1/read.rs over an in-memory stream.  A reader is          *)
(* [body, rem]: body is the unread rest of the stream, rem the remaining   *)
(* size of the current chunk, -1 for None.                                 *)

DecDigits == {"0", "1", "2", "3", "4", "5", "6", "7", "8", "9"}
LowDigits == <<"a", "b", "c", "d", "e", "f">>
UpDigits  == <<"A", "B", "C", "D", "E", "F">>
LWS       == {"TAB", " "}

\* The index of byte b in the sequence ds (b - b'a', b - b'A', b - b'0').
IndexOf(ds, b) == CHOOSE i \in 1..Len(ds) : ds[i] = b

InSeq(ds, b) == \E i \in 1..Len(ds) : ds[i] = b

\* The value the chunk-size loop adds for a hexadecimal digit.
HexVal(b) ==
    IF b \in DecDigits THEN IndexOf(HexDigits, b) - 1
    ELSE IF InSeq(LowDigits, b) THEN IndexOf(LowDigits, b) + 9
    ELSE IndexOf(UpDigits, b) + 9

\* A u64 is kept as the sequence of its hexadecimal digits, as numbers, the
\* most significant first and without leading zeros: <<>> is 0 and sixteen
\* 15s are u64::MAX.
U64Digits == 16

RECURSIVE u64_strip(_)
u64_strip(n) ==
    IF n # <<>> /\ Head(n) = 0 THEN u64_strip(Tail(n)) ELSE n

\* The u64 of a number.
RECURSIVE u64(_)
u64(i) == IF i = 0 THEN <<>> ELSE Append(u64(i \div 16), i % 16)

\* `n as usize`, for a value that an integer of the model holds.
RECURSIVE u64_int(_)
u64_int(n) ==
    IF n = <<>> THEN 0
    ELSE 16 * u64_int(SubSeq(n, 1, Len(n) - 1)) + n[Len(n)]

\* size *= radix; size += digit, as a build without overflow checks
\* computes it: the product wraps modulo 2^64, the sum cannot overflow.
mul_radix_add(size, digit) ==
    u64_strip(Append(IF Len(size) = U64Digits THEN Tail(size) ELSE size,
                     digit))

\* The result of read_chunk_size. res, size and rest are the result and
\* the unread bytes in a build without overflow checks (release);
\* overflow tells that a `size *= radix` overflowed on the way, where a
\* build with overflow checks (debug) panics with `unread` left unread.
InvalidChunkSize(s) ==
    [res |-> "InvalidInput", size |-> <<>>, rest |-> s,
     overflow |-> FALSE, unread |-> <<>>]

\* The digit step of the loop: the first overflow is where a checked build
\* stops.
digit_step(size, t, then) ==
    IF Len(size) = U64Digits
    THEN [then EXCEPT !.overflow = TRUE, !.unread = t]
    ELSE then

Builds == {"debug", "release"}

\* What the caller of read_chunk_size sees in a build: the panic
\* 'attempt to multiply with overflow' of a checked build, or the result.
in_build(build, r) ==
    IF build = "debug" /\ r.overflow
    THEN [res |-> "Panic", size |-> <<>>, rest |-> r.unread]
    ELSE [res |-> r.res, size |-> r.size, rest |-> r.rest]

\* todo!(..) followed by the rest of the loop: the macro of the crate root
\* writes a trace line and execution goes on.
todo_then(rest) == rest

\* The loop of read_chunk_size, arm by arm in the order of the match.
RECURSIVE chunk_size_loop(_, _, _, _)
chunk_size_loop(s, size, in_ext, in_chunk_size) ==
    IF s = <<>> THEN InvalidChunkSize(s)
    ELSE LET b == Head(s)
             t == Tail(s)
         IN  IF in_chunk_size /\ (b \in DecDigits \/ InSeq(LowDigits, b)
                                  \/ InSeq(UpDigits, b))
             THEN digit_step(size, t,
                             chunk_size_loop(t, mul_radix_add(size, HexVal(b)),
                                             in_ext, in_chunk_size))
             ELSE IF b = "CR"
             THEN IF t # <<>> /\ Head(t) = "LF"
                  THEN [res |-> "Ok", size |-> size, rest |-> Tail(t),
                        overflow |-> FALSE, unread |-> <<>>]
                  ELSE InvalidChunkSize(IF t = <<>> THEN t ELSE Tail(t))
             ELSE IF b = ";" /\ ~in_ext
             THEN chunk_size_loop(t, size, TRUE, FALSE)
             ELSE IF b \in LWS /\ ~in_ext /\ ~in_chunk_size
             THEN chunk_size_loop(t, size, in_ext, in_chunk_size)
             ELSE IF b \in LWS /\ in_chunk_size
             THEN chunk_size_loop(t, size, in_ext, FALSE)
             ELSE IF in_ext
             THEN todo_then(chunk_size_loop(t, size, in_ext, in_chunk_size))
             ELSE InvalidChunkSize(t)

\* read_chunk_size: let mut size = 0u64; in_ext = false;
\* in_chunk_size = true; loop { .. }
read_chunk_size(s) == chunk_size_loop(s, <<>>, FALSE, TRUE)

\* eat(rdr, b"\r\n")
eat_crlf(s) ==
    IF Len(s) >= 2 /\ s[1] = "CR" /\ s[2] = "LF"
    THEN [ok |-> TRUE, rest |-> SubSeq(s, 3, Len(s))]
    ELSE [ok |-> FALSE,
          rest |-> IF s = <<>> \/ s[1] # "CR" THEN SubSeq(s, 2, Len(s))
                   ELSE SubSeq(s, 3, Len(s))]

Min(a, b) == IF a < b THEN a ELSE b

\* The ChunkedReader arm of <HttpReader as Read>::read with a buffer of n
\* bytes, in a build: the reader afterwards, the bytes put in the buffer
\* and the result ("Ok" with no bytes is Ok(0), the end of the body;
\* "Panic" when the size line it reads overflows in a build that checks).
ChunkedReader_read(r, n, build) ==
    LET cs == IF r.rem = -1
              THEN LET c == in_build(build, read_chunk_size(r.body)) IN
                   IF c.res = "Ok"
                   THEN [res |-> "Ok", size |-> u64_int(c.size),
                         rest |-> c.rest]
                   ELSE [res |-> c.res, size |-> 0, rest |-> c.rest]
              ELSE [res |-> "Ok", size |-> r.rem, rest |-> r.body]
    IN  IF cs.res # "Ok"
        THEN [r |-> [body |-> cs.rest, rem |-> r.rem], data |-> <<>>,
              res |-> cs.res]
        ELSE IF cs.size = 0
        THEN [r |-> [body |-> cs.rest, rem |-> 0], data |-> <<>>,
              res |-> "Ok"]
        ELSE LET count == Min(Min(cs.size, n), Len(cs.rest))
                 got   == SubSeq(cs.rest, 1, count)
                 after == SubSeq(cs.rest, count + 1, Len(cs.rest))
             IN  IF count = 0
                 THEN [r |-> [body |-> after, rem |-> 0], data |-> <<>>,
                       res |-> "early eof"]
                 ELSE IF cs.size - count > 0
                 THEN [r |-> [body |-> after, rem |-> cs.size - count],
                       data |-> got, res |-> "Ok"]
                 ELSE LET e == eat_crlf(after) IN
                      IF e.ok
                      THEN [r |-> [body |-> e.rest, rem |-> -1],
                            data |-> got, res |-> "Ok"]
                      ELSE [r |-> [body |-> e.rest, rem |-> r.rem],
                            data |-> <<>>, res |-> "InvalidInput"]

\* Read::read_to_end over a ChunkedReader with a buffer of n bytes: the
\* bytes decoded until Ok(0) or an error, and how the reading ended.
RECURSIVE read_to_end(_, _, _, _)
read_to_end(r, n, acc, build) ==
    LET x == ChunkedReader_read(r, n, build) IN
    IF x.res # "Ok" THEN [data |-> acc, res |-> x.res, rest |-> x.r.body]
    ELSE IF x.data = <<>> THEN [data |-> acc, res |-> "Ok", rest |-> x.r.body]
    ELSE read_to_end(x.r, n, acc \o x.data, build)

\* Decoding a whole stream from a fresh ChunkedReader(stream, None).
decode_chunked(stream, n, build) ==
    read_to_end([body |-> stream, rem |-> -1], n, <<>>, build)

\* A SizedReader arm that asks the underlying reader for the whole buffer.
SizedReader_to_read_buf(rem, n) == n

\* read.rs 100: cmp::min(*remaining as usize, buf.len())
SizedReader_to_read(rem, n) == Min(rem, n)

\* A SizedReader arm for which a read of no bytes is the end of the body.
SizedReader_read_eof_ok(r, n) ==
    IF r.rem = 0
    THEN [r |-> r, data |-> <<>>, res |-> "Ok", touched |-> FALSE]
    ELSE LET num == Min(Min(r.rem, n), Len(r.body)) IN
         [r |-> [body |-> SubSeq(r.body, num + 1, Len(r.body)),
                 rem |-> r.rem - num],
          data |-> SubSeq(r.body, 1, num), res |-> "Ok", touched |-> TRUE]

\* The SizedReader arm of <HttpReader as Read>::read with a buffer of n
\* bytes over an in-memory reader: the reader afterwards, the bytes put in
\* the buffer, the result, and whether the underlying reader was called.
SizedReader_read(r, n) ==
    IF r.rem = 0
    THEN [r |-> r, data |-> <<>>, res |-> "Ok", touched |-> FALSE]
    ELSE LET to_read == SizedReader_to_read(r.rem, n)
             num     == Min(to_read, Len(r.body))
             got     == SubSeq(r.body, 1, num)
             after   == SubSeq(r.body, num + 1, Len(r.body))
         IN  IF num > r.rem
             THEN [r |-> [body |-> after, rem |-> 0], data |-> got,
                   res |-> "Ok", touched |-> TRUE]
             ELSE IF num = 0
             THEN [r |-> [body |-> after, rem |-> r.rem], data |-> <<>>,
                   res |-> "early eof", touched |-> TRUE]
             ELSE [r |-> [body |-> after, rem |-> r.rem - num], data |-> got,
                   res |-> "Ok", touched |-> TRUE]

\* No HttpReader was made yet.  `input` is what the underlying reader held
\* at the start, `declared` the length a SizedReader was made with, `reads`
\* the read calls made: buffer size, result, bytes returned, remaining
\* count before the call, and whether the underlying reader was called.
NoReader ==
    [kind |-> "none", input |-> <<>>, declared |-> 0, body |-> <<>>,
     rem |-> 0, reads |-> <<>>]

\* No bytes were drawn yet.  `step` counts the calls made, `build` is the
\* build that ran, `size` is what read_chunk_size on `input` gave in it.
NoRead ==
    [step |-> 0, input |-> <<>>, build |-> "none",
     size |-> in_build("release", InvalidChunkSize(<<>>))]

----------------------------------------------------------------------------
(* Response: src/src/server/response.rs.                                   *)
(* Headers are [date, cl, te, conn]: date tells whether Date is set, cl is *)
(* the Content-Length or -1 when absent, te the Transfer-Encoding list     *)
(* (empty when absent), conn the Connection header as [set, opts].         *)

Versions == {"Http10", "Http11", "Http20"}

NoConnection == [set |-> FALSE, opts |-> {}]

\* Headers::new
NoHeaders == [date |-> FALSE, cl |-> -1, te |-> <<>>, conn |-> NoConnection]

\* A keep-alive test that looks at Connection: close only, for any version.
should_keep_alive_close_only(version, headers) ==
    ~(headers.conn.set /\ "close" \in headers.conn.opts)

\* http::should_keep_alive
should_keep_alive(version, headers) ==
    IF version = "Http10" /\ ~headers.conn.set THEN FALSE
    ELSE IF version = "Http10" /\ headers.conn.set
            /\ "keep-alive" \notin headers.conn.opts THEN FALSE
    ELSE IF version = "Http11" /\ headers.conn.set
            /\ "close" \in headers.conn.opts THEN FALSE
    ELSE TRUE

\* Response::write_head: the headers afterwards (Date injected, chunked
\* pushed onto Transfer-Encoding when there is no Content-Length) and the
\* body writer the head announces.
write_head(headers) ==
    LET dated   == [headers EXCEPT !.date = TRUE]
        chunked == dated.cl < 0
    IN  [headers |-> IF chunked
                     THEN [dated EXCEPT !.te = Append(@, "chunked")]
                     ELSE dated,
         body |-> IF chunked THEN ChunkedWriter ELSE SizedWriter(dated.cl)]

\* The test of Drop for Response that ignores the type state.
is_fresh_always(phase) == TRUE

\* Drop for Response: TypeId::of::<T>() == TypeId::of::<Fresh>()
is_fresh(phase) == phase = "Fresh"

\* Drop for Response<Fresh>: headers.set(ContentLength(0))
fresh_drop_headers(headers) == [headers EXCEPT !.cl = 0]

\* The close test of Drop for Response that never closes.
drop_closes_never(version, headers) == FALSE

\* Drop for Response: if !http::should_keep_alive(..) { close() }
drop_closes(version, headers) == ~should_keep_alive(version, headers)

\* No Response exists.  `how` and `was` are history: the call that finished
\* the Response and the phase it was in then.
NoResp == [phase |-> "none", version |-> "Http11", status |-> "Ok",
           headers |-> NoHeaders, how |-> "none", was |-> "none", ops |-> 0]

\* The entry of `heads` for a head written when the body bytes o and the
\* close() calls cs had been made.
head_line(version, status, headers, o, cs) ==
    [version |-> version, status |-> status, headers |-> headers,
     at |-> Len(o), closed |-> Len(cs)]

\* Drop for Response, then the drop of its fields: a Fresh response sets
\* Content-Length: 0 and writes the head; close() is called when the
\* connection is not to be kept alive; then the body writer is dropped.
Response_drop(phase, version, status, headers, w, o, hs, cs) ==
    LET fresh == is_fresh(phase)
        hdrs  == IF fresh
                 THEN write_head(fresh_drop_headers(headers)).headers
                 ELSE headers
        hs1   == IF fresh
                 THEN Append(hs, head_line(version, status, hdrs, o, cs))
                 ELSE hs
        cs1   == IF drop_closes(version, hdrs)
                 THEN Append(cs, [at |-> Len(o), heads |-> Len(hs1)])
                 ELSE cs
        d     == HttpWriter_drop(w)
    IN  [headers |-> hdrs, heads |-> hs1, closes |-> cs1,
         out |-> o \o d.emit, writer |-> d.w]

----------------------------------------------------------------------------
(* server::conn::handle and do_parse: src/src/server/conn.rs.              *)
(* srv is [phase, buf, req, err, calls, polls, req_held, stream, join,     *)
(* ops]: buf is do_parse's buffer, req the request handed to the handler,  *)
(* err the error the parse future failed with, calls the handler calls     *)
(* made (history), polls the number of stream events received, req_held    *)
(* whether the handler still holds the Request, stream where               *)
(* do_borrowed_stream stands with the borrowed stream ("none" outside a    *)
(* handler call, "idle" while it waits for the Request to ask for data,    *)
(* "asked" while it waits for the chunk it asked the stream for, "back"    *)
(* when it gave the stream back, "ended" or "failed" when it lost it),     *)
(* join the state of eventual::join((future_tx, future_rx)) ("none",       *)
(* "waiting" or "failed"), ops the number of counted calls the handlers    *)
(* made on their responses.                                                *)

\* The head of a request as far as the server looks at it.
NoRequest ==
    [version |-> "Http11",
     headers |-> [conn |-> NoConnection, expect |-> FALSE]]

\* handle(tick_tx, tick_rx, handler) was called: parse(tick_rx) starts
\* do_parse with an empty buffer.
NoServer ==
    [phase |-> "parsing", buf |-> <<>>, req |-> NoRequest, err |-> "none",
     calls |-> <<>>, polls |-> 0, req_held |-> FALSE, stream |-> "none",
     join |-> "none", ops |-> 0]

----------------------------------------------------------------------------
(* Conn::on_data.                                                          *)

NoLast ==
    [ data     |-> <<>>,       \* the chunk delivered
      from     |-> "Parsing",  \* Conn.state when on_data was entered
      returned |-> FALSE,      \* a dropped Lease was waiting in the channel
      claimed  |-> FALSE,      \* the claim() at the top returned Some
      path     |-> "none",     \* the arm of `match self.state` that ran
      lent     |-> FALSE,      \* the Lend was Lent when that arm ran
      parsed   |-> FALSE,      \* the parser was invoked
      input    |-> <<>>,       \* the bytes given to the parser
      result   |-> "none",     \* "Some" | "None" | "Err" from the parser
      err      |-> "none",     \* the error kind of an Err
      incoming |-> FALSE,      \* handler.on_incoming was called
      used     |-> -1,         \* the value handler.on_body returned, or -1
      closes   |-> 0,          \* Transfer::close() calls made
      wrote    |-> <<>> ]      \* Transfer::write() calls made

\* The values handler.on_body may return for a chunk: every offset that lies
\* on an element border of the chunk, and one value past its length.
UsedChoices(data) ==
    { len(SubSeq(data, 1, k)) : k \in 0..Len(data) } \cup { len(data) + 1 }

\* The number of complete heads at the front of `data`: parse gives
\* Ok(Some((head, len))) for the first, and is asked again from len on.  An
\* empty line before a request line is skipped and ends no head, and
\* nothing is counted behind a head that is incomplete or in error.
RECURSIVE Terminators(_)
Terminators(data) ==
    LET r == parse(data) IN
    IF r.tag = "Some" THEN 1 + Terminators(from_offset(data, r.len)) ELSE 0

\* conn.rs 31-33 without the reset: the state is left as it was.
after_claim_keeps_state(some, st) == st

\* conn.rs 31-33: a successful claim() resets the state to Parsing.
after_claim(some, st) == IF some THEN "Parsing" ELSE st

\* An extend that puts the chunk in front of what the parse buffer held.
buffer_extend_front(buf, data) == data \o buf

\* An extend that drops what the parse buffer held.
buffer_extend_replace(buf, data) == data

\* conn.rs 36: self.buffer.get_mut().extend(data)
buffer_extend(buf, data) == buf \o data

\* The State::Parsing arm, entered with the Lend in state l.
Parsing(l, data, lst) ==
    LET buf == buffer_extend(buffer, data)
        r   == parse(buf)
        rec == [lst EXCEPT !.path = "Parsing", !.lent = (l.tag = "Lent"),
                           !.parsed = TRUE, !.input = buf,
                           !.result = r.tag, !.err = r.err]
    IN  /\ buffer' = buf
        /\ IF r.tag = "Some" THEN
               LET ls == lease(l) IN
               /\ position' = r.len
               /\ transfer' = ls.lend
               /\ IF ls.ok
                  THEN /\ held' = held + 1
                       /\ calls' = Append(calls, [op |-> "on_incoming",
                                                  arg |-> r.head])
                       /\ last' = [rec EXCEPT !.incoming = TRUE]
                       /\ state' = "Handling"
                       /\ UNCHANGED panicked
                  ELSE /\ panicked' = "already leased"
                       /\ last' = rec
                       /\ state' = "Parsing"
                       /\ UNCHANGED <<held, calls>>
               /\ UNCHANGED closes
           ELSE IF r.tag = "None" THEN
               /\ state' = "Parsing"
               /\ transfer' = l
               /\ last' = rec
               /\ UNCHANGED <<position, held, closes, calls, panicked>>
           ELSE
               LET c2 == claim(l) IN
               /\ transfer' = c2.lend
               /\ IF c2.some
                  THEN /\ closes' = closes + 1
                       /\ last' = [rec EXCEPT !.closes = 1]
                       /\ state' = "Closed"
                       /\ UNCHANGED panicked
                  ELSE /\ panicked' = "lost transfer"
                       /\ last' = rec
                       /\ state' = "Parsing"
                       /\ UNCHANGED closes
               /\ UNCHANGED <<position, held, calls>>

\* A Handling arm that refills the parse buffer with the whole chunk.
tail_handoff_whole(data, used) == data

\* The Handling arm's refill of the emptied parse buffer:
\* truncate(0); set_position(0); extend(&data[used..]).
tail_handoff(data, used) == from_offset(data, used)

\* The State::Handling arm, for a handler whose on_body returns one of
\* `choices`.
Handling(l, data, lst, choices) ==
    \E used \in choices :
        /\ calls' = Append(calls, [op |-> "on_body", arg |-> data])
        /\ last' = [lst EXCEPT !.path = "Handling", !.lent = (l.tag = "Lent"),
                               !.used = used]
        /\ IF len(data) > used
           THEN /\ buffer' = tail_handoff(data, used)
                /\ position' = 0
                /\ state' = "Parsing"
           ELSE /\ state' = "Handling"
                /\ UNCHANGED <<buffer, position>>
        /\ transfer' = l
        /\ UNCHANGED <<held, closes, panicked>>

\* The State::Closed arm: unimplemented!().
Closed(l, data, lst) ==
    /\ panicked' = "not yet implemented"
    /\ last' = [lst EXCEPT !.path = "Closed", !.lent = (l.tag = "Lent")]
    /\ transfer' = l
    /\ state' = "Closed"
    /\ UNCHANGED <<buffer, position, held, closes, calls>>

\* Conn::on_data(data), for a handler whose on_body returns one of
\* `choices`.
on_data_with(data, choices) ==
    /\ panicked = "none"
    /\ events < MaxEvents
    /\ LET c   == claim(transfer)
           st  == after_claim(c.some, state)
           lst == [NoLast EXCEPT !.data = data, !.from = state,
                                 !.returned = (transfer.tag = "Lent"
                                               /\ transfer.chan > 0),
                                 !.claimed = c.some]
       IN  CASE st = "Parsing"  -> Parsing(c.lend, data, lst)
             [] st = "Handling" -> Handling(c.lend, data, lst, choices)
             [] st = "Closed"   -> Closed(c.lend, data, lst)
    /\ events' = events + 1
    /\ received' = received \o data
    /\ heads_in' = Terminators(received \o data)
    /\ UNCHANGED <<ltrace, resp_vars, srv, pt, rd, hr>>

\* Conn::on_data(data), whatever on_body returns.
on_data(data) == on_data_with(data, UsedChoices(data))

\* The handler lets go of the Lease it was given (the Response is dropped).
HandlerDrop ==
    /\ panicked = "none"
    /\ Lease_drop
    /\ UNCHANGED <<conn_vars, srv, pt, rd, hr, panicked, ltrace, resp_vars>>

\* Conn::new
Init ==
    /\ state = "Parsing"
    /\ buffer = <<>>
    /\ position = 0
    /\ transfer = Owned
    /\ held = 0
    /\ closes = 0
    /\ calls = <<>>
    /\ last = NoLast
    /\ received = <<>>
    /\ heads_in = 0
    /\ events = 0
    /\ panicked = "none"
    /\ ltrace = <<>>
    /\ resp = NoResp
    /\ writer = NoWriter
    /\ out = <<>>
    /\ heads = <<>>
    /\ t_closes = <<>>
    /\ w_hist = <<>>
    /\ srv = NoServer
    /\ pt = NoParse
    /\ rd = NoRead
    /\ hr = NoReader

Next ==
    \/ \E data \in Chunks : on_data(data)
    \/ HandlerDrop

Spec == Init /\ [][Next]_vars

----------------------------------------------------------------------------
(* The Lend on its own: any sequence of lease(), Lease drop and claim().   *)

LendLease ==
    /\ panicked = "none"
    /\ Len(ltrace) < MaxOps
    /\ LET ls == lease(transfer) IN
       /\ transfer' = ls.lend
       /\ IF ls.ok
          THEN /\ held' = held + 1
               /\ UNCHANGED panicked
          ELSE /\ panicked' = "already leased"
               /\ UNCHANGED held
    /\ ltrace' = Append(ltrace, "lease")
    /\ UNCHANGED <<conn_vars, srv, pt, rd, hr, resp_vars>>

LendDrop ==
    /\ panicked = "none"
    /\ Len(ltrace) < MaxOps
    /\ Lease_drop
    /\ ltrace' = Append(ltrace, "drop")
    /\ UNCHANGED <<conn_vars, srv, pt, rd, hr, panicked, resp_vars>>

LendClaim ==
    /\ panicked = "none"
    /\ Len(ltrace) < MaxOps
    /\ LET c == claim(transfer) IN
       /\ transfer' = c.lend
       /\ ltrace' = Append(ltrace, IF c.some THEN "claim:some" ELSE "claim:none")
    /\ UNCHANGED <<conn_vars, srv, pt, rd, hr, held, panicked, resp_vars>>

LendNext == LendLease \/ LendDrop \/ LendClaim

LendSpec == Init /\ [][LendNext]_vars

----------------------------------------------------------------------------
(* An HttpWriter on its own over an in-memory sink, as in the tests of     *)
(* write.rs: built once, written to, then finished by end() or by drop.    *)

MaxWrites == 3
MaxSized == 3

\* A payload long enough for a two-digit chunk size.
LongPayload == [i \in 1..16 |-> "a"]

Payloads == { <<>>, <<"a">>, <<"0", "CR", "LF">>, LongPayload }

Writers ==
    {ThroughWriter, ChunkedWriter, EmptyWriter}
        \cup { SizedWriter(n) : n \in 0..MaxSized }

\* The call body.write(msg), with its line of history.
body_write(msg) ==
    LET r == HttpWriter_write(writer, msg) IN
    /\ writer' = r.w
    /\ out' = out \o r.emit
    /\ w_hist' = Append(w_hist, [msg |-> msg, ret |-> r.ret, emit |-> r.emit,
                                 rem |-> writer.rem])

\* ThroughWriter(w), ChunkedWriter(w), SizedWriter(w, n), EmptyWriter(w)
Writer_new ==
    /\ writer.live = "no"
    /\ \E w \in Writers : writer' = w
    /\ UNCHANGED <<conn_vars, srv, pt, rd, hr, transfer, held, panicked, ltrace, resp, out,
                   heads, t_closes, w_hist>>

\* <HttpWriter as Write>::write
Writer_write ==
    /\ writer.live = "yes"
    /\ Len(w_hist) < MaxWrites
    /\ \E msg \in Payloads : body_write(msg)
    /\ UNCHANGED <<conn_vars, srv, pt, rd, hr, transfer, held, panicked, ltrace, resp, heads,
                   t_closes>>

\* HttpWriter::end
Writer_end ==
    /\ writer.live = "yes"
    /\ LET e == HttpWriter_end(writer) IN
       /\ writer' = e.w
       /\ out' = out \o e.emit
    /\ UNCHANGED <<conn_vars, srv, pt, rd, hr, transfer, held, panicked, ltrace, resp, heads,
                   t_closes, w_hist>>

\* Drop for HttpWriter
Writer_drop ==
    /\ writer.live = "yes"
    /\ LET d == HttpWriter_drop(writer) IN
       /\ writer' = d.w
       /\ out' = out \o d.emit
    /\ UNCHANGED <<conn_vars, srv, pt, rd, hr, transfer, held, panicked, ltrace, resp, heads,
                   t_closes, w_hist>>

\* HttpWriter::into_inner
Writer_into_inner ==
    /\ writer.live = "yes"
    /\ LET t == HttpWriter_into_inner(writer) IN
       /\ writer' = t.w
       /\ out' = out \o t.emit
    /\ UNCHANGED <<conn_vars, srv, pt, rd, hr, transfer, held, panicked, ltrace, resp, heads,
                   t_closes, w_hist>>

WriterNext ==
    \/ Writer_new
    \/ Writer_write
    \/ Writer_end
    \/ Writer_drop
    \/ Writer_into_inner

WriterSpec == Init /\ [][WriterNext]_vars

----------------------------------------------------------------------------
(* One Response: the connection parses a request head and leases the       *)
(* Transfer to the handler, the handler wraps the Lease in a Response,     *)
(* sets it up, starts or sends it, writes the body and lets it go.         *)

RespMaxWrites == 2

\* The most writes and close() calls a handler makes on the parts of a
\* deconstructed Response.
MaxPartsOps == 1

\* What a handler writes to the parts, through the HttpWriter or past it.
PartsPayloads == { <<"a">> }

RespPayloads == { <<>>, <<"0", "a">> }

Statuses == {"Ok", "NotFound"}

ContentLengths == {-1, 0, 3}

TransferEncodings ==
    { <<>>, <<"gzip">>, <<"chunked">>, <<"gzip", "chunked">> }

Connections ==
    {NoConnection}
        \cup { [set |-> TRUE, opts |-> o] : o \in SUBSET {"keep-alive", "close"} }

\* The request head arrives: Conn::on_data parses it and calls on_incoming.
Resp_incoming ==
    /\ events = 0
    /\ on_data(<<"A", "N">>)

\* The reactor delivers the next chunk, at any time after the head; the
\* handler's on_body takes all of a chunk.
Resp_more_data ==
    /\ events = 1
    /\ on_data_with(<<"B", "N">>, {len(<<"B", "N">>)})

\* Response::new around the leased Transfer
Response_new ==
    /\ panicked = "none"
    /\ held = 1
    /\ resp.phase = "none"
    /\ resp' = [NoResp EXCEPT !.phase = "Fresh"]
    /\ writer' = ThroughWriter
    /\ UNCHANGED <<conn_vars, srv, pt, rd, hr, transfer, held, panicked, ltrace, out, heads,
                   t_closes, w_hist>>

\* The handler assigns the public field `version`, which every
\* Response<W> has, Fresh or Streaming.
Response_set_version ==
    /\ resp.phase \in {"Fresh", "Streaming"}
    /\ \E v \in Versions : resp' = [resp EXCEPT !.version = v]
    /\ UNCHANGED <<conn_vars, srv, pt, rd, hr, transfer, held, panicked, ltrace, writer, out,
                   heads, t_closes, w_hist>>

\* The handler sets up the Fresh response: status_mut() and headers_mut().
Response_setup ==
    /\ resp.phase = "Fresh"
    /\ \E s \in Statuses, d \in BOOLEAN, cl \in ContentLengths,
          te \in TransferEncodings, c \in Connections :
          resp' = [resp EXCEPT !.status = s,
                               !.headers = [date |-> d, cl |-> cl, te |-> te,
                                            conn |-> c]]
    /\ UNCHANGED <<conn_vars, srv, pt, rd, hr, transfer, held, panicked, ltrace, writer, out,
                   heads, t_closes, w_hist>>

\* Response<Fresh>::start
Response_start ==
    /\ resp.phase = "Fresh"
    /\ LET h == write_head(resp.headers) IN
       /\ heads' = Append(heads, head_line(resp.version, resp.status,
                                           h.headers, out, t_closes))
       /\ resp' = [resp EXCEPT !.phase = "Streaming", !.headers = h.headers]
       /\ writer' = h.body
    /\ UNCHANGED <<conn_vars, srv, pt, rd, hr, transfer, held, panicked, ltrace, out, t_closes,
                   w_hist>>

\* Response<Streaming>::write
Response_write ==
    /\ resp.phase = "Streaming"
    /\ Len(w_hist) < RespMaxWrites
    /\ \E msg \in RespPayloads : body_write(msg)
    /\ UNCHANGED <<conn_vars, srv, pt, rd, hr, transfer, held, panicked, ltrace, resp, heads,
                   t_closes>>

\* The Response goes away by the call `how`: Drop for Response, the drop of
\* the body writer, then the drop of the Lease it wraps.
Response_gone(how) ==
    LET d == Response_drop(resp.phase, resp.version, resp.status,
                           resp.headers, writer, out, heads, t_closes)
    IN  /\ resp' = [resp EXCEPT !.phase = "dropped", !.headers = d.headers,
                                !.how = how, !.was = resp.phase]
        /\ heads' = d.heads
        /\ t_closes' = d.closes
        /\ out' = d.out
        /\ writer' = d.writer
        /\ Lease_drop
        /\ UNCHANGED <<conn_vars, srv, pt, rd, hr, panicked, ltrace, w_hist>>

\* The handler lets go of the Response (Fresh or Streaming).
Response_dropped ==
    /\ resp.phase \in {"Fresh", "Streaming"}
    /\ Response_gone("drop")

\* Response<Streaming>::end
Response_end ==
    /\ resp.phase = "Streaming"
    /\ Response_gone("end")

\* Response::deconstruct: the Response is taken apart and forgotten, so
\* that Drop for Response never runs; the handler holds the parts.
Response_deconstruct ==
    /\ resp.phase \in {"Fresh", "Streaming"}
    /\ resp' = [resp EXCEPT !.phase = "parts", !.how = "deconstruct",
                            !.was = resp.phase]
    /\ UNCHANGED <<conn_vars, srv, pt, rd, hr, transfer, held, panicked, ltrace, writer, out,
                   heads, t_closes, w_hist>>

\* <HttpWriter as Write>::write on the body of the parts: for a response
\* deconstructed while Fresh that is the ThroughWriter of Response::new.
Parts_write ==
    /\ resp.phase = "parts"
    /\ resp.ops < MaxPartsOps
    /\ \E msg \in PartsPayloads : body_write(msg)
    /\ resp' = [resp EXCEPT !.ops = @ + 1]
    /\ UNCHANGED <<conn_vars, srv, pt, rd, hr, transfer, held, panicked, ltrace, heads,
                   t_closes>>

\* The parts are dropped: Drop for HttpWriter, then the drop of the Lease
\* inside it.
Parts_dropped ==
    /\ resp.phase = "parts"
    /\ LET d == HttpWriter_drop(writer) IN
       /\ writer' = d.w
       /\ out' = out \o d.emit
    /\ resp' = [resp EXCEPT !.phase = "forgotten"]
    /\ Lease_drop
    /\ UNCHANGED <<conn_vars, srv, pt, rd, hr, panicked, ltrace, heads, t_closes,
                   w_hist>>

\* HttpWriter::into_inner on the body of the parts: the handler now holds
\* the AsyncWriter, which still owns the Lease.
Parts_into_inner ==
    /\ resp.phase = "parts"
    /\ LET t == HttpWriter_into_inner(writer) IN
       /\ writer' = t.w
       /\ out' = out \o t.emit
    /\ resp' = [resp EXCEPT !.phase = "inner"]
    /\ UNCHANGED <<conn_vars, srv, pt, rd, hr, transfer, held, panicked, ltrace, heads,
                   t_closes, w_hist>>

\* HttpWriter::end on the body of the parts: the last write, then
\* into_inner; the AsyncWriter it returns still owns the Lease.
Parts_end ==
    /\ resp.phase = "parts"
    /\ LET e == HttpWriter_end(writer) IN
       /\ writer' = e.w
       /\ out' = out \o e.emit
    /\ resp' = [resp EXCEPT !.phase = "inner"]
    /\ UNCHANGED <<conn_vars, srv, pt, rd, hr, transfer, held, panicked, ltrace, heads,
                   t_closes, w_hist>>

\* <AsyncWriter as Write>::write, on the AsyncWriter of the parts
\* (body.get_mut().write(data), past the HttpWriter's framing) or on the
\* one into_inner or end returned: the bytes go to the Transfer as they
\* are.
AsyncWriter_write ==
    /\ resp.phase \in {"parts", "inner"}
    /\ resp.ops < MaxPartsOps
    /\ \E data \in PartsPayloads :
         /\ out' = out \o data
         /\ w_hist' = Append(w_hist, [msg |-> data, ret |-> Len(data),
                                      emit |-> data, rem |-> writer.rem])
    /\ resp' = [resp EXCEPT !.ops = @ + 1]
    /\ UNCHANGED <<conn_vars, srv, pt, rd, hr, transfer, held, panicked, ltrace,
                   writer, heads, t_closes>>

\* AsyncWriter::get_mut().close(), on the AsyncWriter of the parts
\* (body.get_mut().get_mut().close()) or on the one into_inner or end
\* returned: Transfer::close() on the leased Transfer.
AsyncWriter_close ==
    /\ resp.phase \in {"parts", "inner"}
    /\ resp.ops < MaxPartsOps
    /\ t_closes' = Append(t_closes, [at |-> Len(out), heads |-> Len(heads)])
    /\ resp' = [resp EXCEPT !.ops = @ + 1]
    /\ UNCHANGED <<conn_vars, srv, pt, rd, hr, transfer, held, panicked, ltrace,
                   writer, out, heads, w_hist>>

\* The AsyncWriter is dropped, and with it the Lease.
Inner_dropped ==
    /\ resp.phase = "inner"
    /\ resp' = [resp EXCEPT !.phase = "forgotten"]
    /\ Lease_drop
    /\ UNCHANGED <<conn_vars, srv, pt, rd, hr, panicked, ltrace, writer, out, heads,
                   t_closes, w_hist>>

\* A send() that leaves the Content-Length as the handler set it.
send_headers_kept(headers, data) == headers

\* Response<Fresh>::send: headers.set(ContentLength(data.len() as u64))
send_headers(headers, data) == [headers EXCEPT !.cl = Len(data)]

\* Response<Fresh>::send: headers.set(ContentLength(len)), start(),
\* write(data), and the Streaming response is dropped on return.
Response_send ==
    /\ resp.phase = "Fresh"
    /\ \E data \in RespPayloads :
         LET h  == write_head(send_headers(resp.headers, data))
             hs == Append(heads, head_line(resp.version, resp.status,
                                           h.headers, out, t_closes))
             r  == HttpWriter_write(h.body, data)
             d  == Response_drop("Streaming", resp.version, resp.status,
                                 h.headers, r.w, out \o r.emit, hs, t_closes)
         IN  /\ resp' = [resp EXCEPT !.phase = "dropped",
                                     !.headers = d.headers,
                                     !.how = "send", !.was = "Streaming"]
             /\ heads' = d.heads
             /\ t_closes' = d.closes
             /\ out' = d.out
             /\ writer' = d.writer
             /\ w_hist' = Append(w_hist, [msg |-> data, ret |-> r.ret,
                                          emit |-> r.emit, rem |-> h.body.rem])
    /\ Lease_drop
    /\ UNCHANGED <<conn_vars, srv, pt, rd, hr, panicked, ltrace>>

RespNext ==
    \/ Resp_incoming
    \/ Resp_more_data
    \/ Response_new
    \/ Response_set_version
    \/ Response_setup
    \/ Response_start
    \/ Response_write
    \/ Response_dropped
    \/ Response_end
    \/ Response_send
    \/ Response_deconstruct
    \/ Parts_write
    \/ Parts_dropped
    \/ Parts_into_inner
    \/ Parts_end
    \/ AsyncWriter_write
    \/ AsyncWriter_close
    \/ Inner_dropped

RespSpec == Init /\ [][RespNext]_vars

----------------------------------------------------------------------------
(* The server of src/src/server/conn.rs: do_parse collects chunks until    *)
(* the head parses, handle gives the request and a Fresh response to the   *)
(* handler and starts over when the handler is done.                       *)

MaxPolls == 2

\* The heads a parsed request may stand for.
Requests ==
    { [version |-> v, headers |-> [conn |-> c, expect |-> FALSE]] :
        v \in {"Http10", "Http11"},
        c \in { NoConnection, [set |-> TRUE, opts |-> {"keep-alive"}],
                [set |-> TRUE, opts |-> {"close"}] } }
      \cup { [version |-> "Http11",
              headers |-> [conn |-> NoConnection, expect |-> TRUE]] }

\* A handle that sets Connection: keep-alive on every response.
handle_connection_keep(req) == [set |-> TRUE, opts |-> {"keep-alive"}]

\* handle, Ok arm: header::Connection::keep_alive() or ::close() by
\* should_keep_alive of the request.
handle_connection(req) ==
    IF should_keep_alive(req.version, req.headers)
    THEN [set |-> TRUE, opts |-> {"keep-alive"}]
    ELSE [set |-> TRUE, opts |-> {"close"}]

\* handle, Ok arm: a Fresh response with the Connection header set, given to
\* handler.handle with the request.  do_parse moved its buffer into the
\* Request (lines 128-131) and holds none.
handle_request(buf, req) ==
    /\ srv' = [srv EXCEPT !.phase = "handling", !.buf = <<>>, !.req = req,
                          !.calls = Append(@, [op |-> "handle", req |-> req]),
                          !.polls = @ + 1, !.req_held = TRUE,
                          !.stream = "idle", !.join = "waiting"]
    /\ resp' = [NoResp EXCEPT !.phase = "Fresh",
                              !.headers.conn = handle_connection(req)]
    /\ writer' = ThroughWriter
    /\ out' = <<>>
    /\ heads' = <<>>
    /\ t_closes' = <<>>
    /\ w_hist' = <<>>

\* handle, Err arms: Method, Uri, Version and Header make a 400 response,
\* TooLarge a 413 response, which is dropped at once; Incomplete, any other
\* error and Aborted make none.
handle_failure(buf, err) ==
    /\ srv' = [srv EXCEPT !.phase = "failed", !.buf = buf, !.err = err,
                          !.polls = @ + 1]
    /\ IF err \notin {"Method", "Uri", "Version", "Header", "TooLarge"}
       THEN UNCHANGED resp_vars
       ELSE LET status == IF err = "TooLarge" THEN "PayloadTooLarge"
                          ELSE "BadRequest"
                d == Response_drop("Fresh", "Http11", status, NoHeaders,
                                   ThroughWriter, <<>>, <<>>, <<>>)
            IN  /\ resp' = [NoResp EXCEPT !.phase = "dropped",
                                          !.status = status,
                                          !.headers = d.headers,
                                          !.how = "drop", !.was = "Fresh"]
                /\ writer' = d.writer
                /\ out' = d.out
                /\ heads' = d.heads
                /\ t_closes' = d.closes
                /\ w_hist' = <<>>

\* The chunks the stream yields: those of the reactor, and a request line
\* with a run that ends one byte below MAX_BUFFER_SIZE.
SrvChunks == Chunks \cup { <<"A", "K">> }

\* A bound test that lets a buffer of MAX_BUFFER_SIZE bytes go on.
within_bound_inclusive(buf) == len(buf) <= MAX_BUFFER_SIZE

\* do_parse, Ok(None) arm: buf.len() < MAX_BUFFER_SIZE
within_bound(buf) == len(buf) < MAX_BUFFER_SIZE

\* do_parse, Ok(Some((bytes, stream))): extend the buffer and parse it.
Srv_chunk ==
    /\ srv.phase = "parsing"
    /\ srv.polls < MaxPolls
    /\ \E bytes \in SrvChunks :
         LET buf == srv.buf \o bytes
             r   == parse(buf)
         IN  CASE r.tag = "Some" -> \E req \in Requests : handle_request(buf, req)
               [] r.tag = "None" ->
                    IF within_bound(buf)
                    THEN /\ srv' = [srv EXCEPT !.buf = buf, !.polls = @ + 1]
                         /\ UNCHANGED resp_vars
                    ELSE handle_failure(buf, "TooLarge")
               [] r.tag = "Err"  -> handle_failure(buf, r.err)
    /\ UNCHANGED <<conn_vars, pt, rd, hr, transfer, held, panicked, ltrace>>

\* do_parse, Ok(None): the stream ended before a head was complete.
Srv_eof ==
    /\ srv.phase = "parsing"
    /\ srv.polls < MaxPolls
    /\ handle_failure(srv.buf, "Incomplete")
    /\ UNCHANGED <<conn_vars, pt, rd, hr, transfer, held, panicked, ltrace>>

\* do_parse, Err(Failed(e)) (line 150): defer.fail(From::from(e)), an
\* ::Error::Io for handle.
Srv_stream_failed ==
    /\ srv.phase = "parsing"
    /\ srv' = [srv EXCEPT !.phase = "failed", !.err = "Io"]
    /\ UNCHANGED <<conn_vars, pt, rd, hr, transfer, held, panicked, ltrace, resp_vars>>

\* do_parse, Err(Aborted) (line 151): `defer` is dropped, and handle gets
\* Err(Aborted).
Srv_stream_aborted ==
    /\ srv.phase = "parsing"
    /\ srv' = [srv EXCEPT !.phase = "failed", !.err = "Aborted"]
    /\ UNCHANGED <<conn_vars, pt, rd, hr, transfer, held, panicked, ltrace, resp_vars>>

\* The most calls the handlers of a connection make that they may make
\* again: assignments to the head, writes and close().  The calls that
\* consume the value they are made on (start, deconstruct, into_inner, end,
\* send, the drop) are made once each and are not counted.
MaxHandlerOps == 1

\* conn.rs 29-36, the callback of eventual::join((future_tx, future_rx)):
\* Ok calls handle(tick_tx, tick_rx, handler), which parses the next
\* request with a new buffer; Err does nothing more, and the connection is
\* never parsed again ("stopped"), whatever the handler still holds.
join_done(s) ==
    IF s.join = "failed"
    THEN [s EXCEPT !.phase = "stopped"]
    ELSE [s EXCEPT !.phase = "parsing", !.buf = <<>>, !.join = "none",
                   !.stream = "none"]

\* The join of line 29 while it waits.  It gives Ok when the borrowed
\* sender is back and do_borrowed_stream gave the stream back
\* (complete.complete(rx), line 104).  When do_borrowed_stream dropped
\* `complete` (line 91) future_rx is aborted, and the join gives Err once
\* the sender is back.
joined(s, sender_is_back) ==
    IF s.phase = "handling" /\ sender_is_back /\ s.stream \in {"back", "ended"}
    THEN join_done([s EXCEPT !.join = IF s.stream = "ended" THEN "failed"
                                      ELSE @])
    ELSE s

\* The handler assigns the status of the Fresh response: status_mut().
Srv_handler_status ==
    /\ srv.phase \in {"handling", "stopped"}
    /\ srv.ops < MaxHandlerOps
    /\ resp.phase = "Fresh"
    /\ \E s \in Statuses : resp' = [resp EXCEPT !.status = s]
    /\ srv' = [srv EXCEPT !.ops = @ + 1]
    /\ UNCHANGED <<conn_vars, pt, rd, hr, transfer, held, panicked, ltrace,
                   writer, out, heads, t_closes, w_hist>>

\* The handler changes the Connection header of the Fresh response it was
\* given: headers_mut().
Srv_handler_setup ==
    /\ srv.phase \in {"handling", "stopped"}
    /\ srv.ops < MaxHandlerOps
    /\ resp.phase = "Fresh"
    /\ \E c \in {NoConnection, [set |-> TRUE, opts |-> {"close"}]} :
          resp' = [resp EXCEPT !.headers.conn = c]
    /\ srv' = [srv EXCEPT !.ops = @ + 1]
    /\ UNCHANGED <<conn_vars, pt, rd, hr, transfer, held, panicked, ltrace,
                   writer, out, heads, t_closes, w_hist>>

\* The handler assigns the public version field of the response, Fresh or
\* Streaming.
Srv_handler_version ==
    /\ srv.phase \in {"handling", "stopped"}
    /\ srv.ops < MaxHandlerOps
    /\ resp.phase \in {"Fresh", "Streaming"}
    /\ \E v \in Versions : resp' = [resp EXCEPT !.version = v]
    /\ srv' = [srv EXCEPT !.ops = @ + 1]
    /\ UNCHANGED <<conn_vars, pt, rd, hr, transfer, held, panicked, ltrace,
                   writer, out, heads, t_closes, w_hist>>

\* The handler starts the response it was given: Response<Fresh>::start.
Srv_handler_start ==
    /\ srv.phase \in {"handling", "stopped"}
    /\ resp.phase = "Fresh"
    /\ LET h == write_head(resp.headers) IN
       /\ heads' = Append(heads, head_line(resp.version, resp.status,
                                           h.headers, out, t_closes))
       /\ resp' = [resp EXCEPT !.phase = "Streaming", !.headers = h.headers]
       /\ writer' = h.body
    /\ UNCHANGED <<conn_vars, pt, rd, hr, transfer, held, panicked, ltrace,
                   srv, out, t_closes, w_hist>>

\* The handler writes to the body of the started response:
\* Response<Streaming>::write.
Srv_handler_write ==
    /\ srv.phase \in {"handling", "stopped"}
    /\ srv.ops < MaxHandlerOps
    /\ resp.phase = "Streaming"
    /\ \E msg \in PartsPayloads : body_write(msg)
    /\ srv' = [srv EXCEPT !.ops = @ + 1]
    /\ UNCHANGED <<conn_vars, pt, rd, hr, transfer, held, panicked, ltrace,
                   resp, heads, t_closes>>

\* The response of the handler goes away by the call `how`: Drop for
\* Response, and the borrowed sender goes back; the join is done when the
\* borrowed stream is finished as well.
Srv_response_gone(how) ==
    /\ srv.phase \in {"handling", "stopped"}
    /\ LET d == Response_drop(resp.phase, resp.version, resp.status,
                              resp.headers, writer, out, heads, t_closes)
       IN  /\ resp' = [resp EXCEPT !.phase = "dropped", !.headers = d.headers,
                                   !.how = how, !.was = resp.phase]
           /\ heads' = d.heads
           /\ t_closes' = d.closes
           /\ out' = d.out
           /\ writer' = d.writer
    /\ srv' = joined(srv, TRUE)
    /\ UNCHANGED <<conn_vars, pt, rd, hr, transfer, held, panicked, ltrace,
                   w_hist>>

\* The handler lets go of the response, Fresh or Streaming.
Srv_handler_done ==
    /\ resp.phase \in {"Fresh", "Streaming"}
    /\ Srv_response_gone("drop")

\* The handler ends the started response: Response<Streaming>::end.
Srv_handler_end ==
    /\ resp.phase = "Streaming"
    /\ Srv_response_gone("end")

\* The handler sends a whole body: Response<Fresh>::send sets the
\* Content-Length, starts, writes, and drops the Streaming response.
Srv_handler_send ==
    /\ srv.phase \in {"handling", "stopped"}
    /\ resp.phase = "Fresh"
    /\ \E data \in PartsPayloads :
         LET h  == write_head(send_headers(resp.headers, data))
             hs == Append(heads, head_line(resp.version, resp.status,
                                           h.headers, out, t_closes))
             r  == HttpWriter_write(h.body, data)
             d  == Response_drop("Streaming", resp.version, resp.status,
                                 h.headers, r.w, out \o r.emit, hs, t_closes)
         IN  /\ resp' = [resp EXCEPT !.phase = "dropped",
                                     !.headers = d.headers,
                                     !.how = "send", !.was = "Streaming"]
             /\ heads' = d.heads
             /\ t_closes' = d.closes
             /\ out' = d.out
             /\ writer' = d.writer
             /\ w_hist' = Append(w_hist, [msg |-> data, ret |-> r.ret,
                                          emit |-> r.emit, rem |-> h.body.rem])
    /\ srv' = joined(srv, TRUE)
    /\ UNCHANGED <<conn_vars, pt, rd, hr, transfer, held, panicked, ltrace>>

\* The handler takes the response apart: Response::deconstruct, after which
\* Drop for Response does not run.
Srv_handler_deconstruct ==
    /\ srv.phase \in {"handling", "stopped"}
    /\ resp.phase \in {"Fresh", "Streaming"}
    /\ resp' = [resp EXCEPT !.phase = "parts", !.how = "deconstruct",
                            !.was = resp.phase]
    /\ UNCHANGED <<conn_vars, pt, rd, hr, transfer, held, panicked, ltrace,
                   srv, writer, out, heads, t_closes, w_hist>>

\* The handler writes to the body of the parts: <HttpWriter as Write>::write.
Srv_parts_write ==
    /\ srv.phase \in {"handling", "stopped"}
    /\ srv.ops < MaxHandlerOps
    /\ resp.phase = "parts"
    /\ \E msg \in PartsPayloads : body_write(msg)
    /\ srv' = [srv EXCEPT !.ops = @ + 1]
    /\ UNCHANGED <<conn_vars, pt, rd, hr, transfer, held, panicked, ltrace,
                   resp, heads, t_closes>>

\* HttpWriter::into_inner on the body of the parts: the handler now holds
\* the AsyncWriter, which still owns the borrowed sender.
Srv_parts_into_inner ==
    /\ srv.phase \in {"handling", "stopped"}
    /\ resp.phase = "parts"
    /\ LET t == HttpWriter_into_inner(writer) IN
       /\ writer' = t.w
       /\ out' = out \o t.emit
    /\ resp' = [resp EXCEPT !.phase = "inner"]
    /\ UNCHANGED <<conn_vars, pt, rd, hr, transfer, held, panicked, ltrace,
                   srv, heads, t_closes, w_hist>>

\* HttpWriter::end on the body of the parts: the last write, then
\* into_inner; the AsyncWriter it returns still owns the borrowed sender.
Srv_parts_end ==
    /\ srv.phase \in {"handling", "stopped"}
    /\ resp.phase = "parts"
    /\ LET e == HttpWriter_end(writer) IN
       /\ writer' = e.w
       /\ out' = out \o e.emit
    /\ resp' = [resp EXCEPT !.phase = "inner"]
    /\ UNCHANGED <<conn_vars, pt, rd, hr, transfer, held, panicked, ltrace,
                   srv, heads, t_closes, w_hist>>

\* <AsyncWriter as Write>::write, on the AsyncWriter of the parts
\* (body.get_mut().write(data)) or on the one into_inner or end returned:
\* the bytes go to the borrowed sender as they are.
Srv_sender_write ==
    /\ srv.phase \in {"handling", "stopped"}
    /\ srv.ops < MaxHandlerOps
    /\ resp.phase \in {"parts", "inner"}
    /\ \E data \in PartsPayloads :
         /\ out' = out \o data
         /\ w_hist' = Append(w_hist, [msg |-> data, ret |-> Len(data),
                                      emit |-> data, rem |-> writer.rem])
    /\ srv' = [srv EXCEPT !.ops = @ + 1]
    /\ UNCHANGED <<conn_vars, pt, rd, hr, transfer, held, panicked, ltrace,
                   resp, writer, heads, t_closes>>

\* AsyncWriter::get_mut().close(), on the AsyncWriter of the parts or on
\* the one into_inner or end returned.
Srv_sender_close ==
    /\ srv.phase \in {"handling", "stopped"}
    /\ srv.ops < MaxHandlerOps
    /\ resp.phase \in {"parts", "inner"}
    /\ t_closes' = Append(t_closes, [at |-> Len(out), heads |-> Len(heads)])
    /\ srv' = [srv EXCEPT !.ops = @ + 1]
    /\ UNCHANGED <<conn_vars, pt, rd, hr, transfer, held, panicked, ltrace,
                   resp, writer, out, heads, w_hist>>

\* The handler lets go of the parts: Drop for HttpWriter, and the borrowed
\* sender inside it goes back with no close().
Srv_parts_dropped ==
    /\ srv.phase \in {"handling", "stopped"}
    /\ resp.phase = "parts"
    /\ LET d == HttpWriter_drop(writer) IN
       /\ writer' = d.w
       /\ out' = out \o d.emit
    /\ resp' = [resp EXCEPT !.phase = "forgotten"]
    /\ srv' = joined(srv, TRUE)
    /\ UNCHANGED <<conn_vars, pt, rd, hr, transfer, held, panicked, ltrace,
                   heads, t_closes, w_hist>>

\* The handler lets go of the AsyncWriter that into_inner or end returned:
\* the borrowed sender goes back.
Srv_inner_dropped ==
    /\ srv.phase \in {"handling", "stopped"}
    /\ resp.phase = "inner"
    /\ resp' = [resp EXCEPT !.phase = "forgotten"]
    /\ srv' = joined(srv, TRUE)
    /\ UNCHANGED <<conn_vars, pt, rd, hr, transfer, held, panicked, ltrace,
                   writer, out, heads, t_closes, w_hist>>

\* The Request reads its body: do_borrowed_stream (line 83) learns that it
\* wants data and asks the stream for the next chunk.
Srv_request_read ==
    /\ srv.phase \in {"handling", "stopped"}
    /\ srv.req_held
    /\ srv.stream = "idle"
    /\ srv' = [srv EXCEPT !.stream = "asked"]
    /\ UNCHANGED <<conn_vars, pt, rd, hr, transfer, held, panicked, ltrace,
                   resp_vars>>

\* do_borrowed_stream, Ok(Some((vec, stream))) (line 87): the chunk it
\* asked for is sent on to the Request.  When the Request is gone by then
\* the chunk is lost, and the next round (line 101) gives the stream back.
Srv_body_chunk ==
    /\ srv.phase \in {"handling", "stopped"}
    /\ srv.stream = "asked"
    /\ srv.polls < MaxPolls
    /\ LET s == [srv EXCEPT !.polls = @ + 1,
                            !.stream = IF srv.req_held THEN "idle" ELSE "back"]
       IN  srv' = joined(s, resp.phase \in {"dropped", "forgotten"})
    /\ UNCHANGED <<conn_vars, pt, rd, hr, transfer, held, panicked, ltrace,
                   resp_vars>>

\* do_borrowed_stream, Ok(None) (line 90): the input ended while it asked;
\* `complete` is dropped, so future_rx is aborted.
Srv_body_eof ==
    /\ srv.phase \in {"handling", "stopped"}
    /\ srv.stream = "asked"
    /\ srv.polls < MaxPolls
    /\ LET s == [srv EXCEPT !.polls = @ + 1, !.stream = "ended"]
       IN  srv' = joined(s, resp.phase \in {"dropped", "forgotten"})
    /\ UNCHANGED <<conn_vars, pt, rd, hr, transfer, held, panicked, ltrace,
                   resp_vars>>

\* do_borrowed_stream, Err(e) (line 93).  With an error in it,
\* complete.fail(e) fails future_rx and the join gives Err at once; with
\* none (the stream was aborted) `complete` is dropped as at line 90.
Srv_body_failed ==
    /\ srv.phase \in {"handling", "stopped"}
    /\ srv.stream = "asked"
    /\ \/ srv' = IF srv.phase = "handling"
                 THEN join_done([srv EXCEPT !.stream = "failed",
                                            !.join = "failed"])
                 ELSE [srv EXCEPT !.stream = "failed"]
       \/ srv' = joined([srv EXCEPT !.stream = "ended"],
                        resp.phase \in {"dropped", "forgotten"})
    /\ UNCHANGED <<conn_vars, pt, rd, hr, transfer, held, panicked, ltrace,
                   resp_vars>>

\* The handler lets go of the Request.  While do_borrowed_stream waits for
\* the Request to ask (line 81) it gives the stream back at once; while it
\* waits for the chunk it asked for (line 85) it goes on waiting.
Srv_request_dropped ==
    /\ srv.phase \in {"handling", "stopped"}
    /\ srv.req_held
    /\ LET s == [srv EXCEPT !.req_held = FALSE,
                            !.stream = IF @ = "idle" THEN "back" ELSE @]
       IN  srv' = joined(s, resp.phase \in {"dropped", "forgotten"})
    /\ UNCHANGED <<conn_vars, pt, rd, hr, transfer, held, panicked, ltrace,
                   resp_vars>>

\* send_all on the borrowed sender fails (line 68) while the handler has
\* the sender: future_tx fails, and the join gives Err at once.
Srv_join_failed ==
    /\ srv.phase = "handling"
    /\ resp.phase \notin {"dropped", "forgotten"}
    /\ srv' = join_done([srv EXCEPT !.join = "failed"])
    /\ UNCHANGED <<conn_vars, pt, rd, hr, transfer, held, panicked, ltrace,
                   resp_vars>>

SrvNext ==
    \/ Srv_chunk
    \/ Srv_eof
    \/ Srv_stream_failed
    \/ Srv_stream_aborted
    \/ Srv_handler_status
    \/ Srv_handler_setup
    \/ Srv_handler_version
    \/ Srv_handler_start
    \/ Srv_handler_write
    \/ Srv_handler_done
    \/ Srv_handler_end
    \/ Srv_handler_send
    \/ Srv_handler_deconstruct
    \/ Srv_parts_write
    \/ Srv_parts_into_inner
    \/ Srv_parts_end
    \/ Srv_sender_write
    \/ Srv_sender_close
    \/ Srv_parts_dropped
    \/ Srv_inner_dropped
    \/ Srv_request_read
    \/ Srv_body_chunk
    \/ Srv_body_eof
    \/ Srv_body_failed
    \/ Srv_request_dropped
    \/ Srv_join_failed

SrvSpec == Init /\ [][SrvNext]_vars

----------------------------------------------------------------------------
(* The parser on its own: a buffer arrives in two parts and is parsed      *)
(* after each, then once more with further bytes behind it.                *)

MaxLen == 4

RECURSIVE SeqsUpTo(_)
SeqsUpTo(n) ==
    IF n = 0 THEN { <<>> }
    ELSE LET shorter == SeqsUpTo(n - 1) IN
         shorter \cup { Append(q, b) : q \in shorter, b \in Byte }

\* The buffers, the byte offset at which one is split, and the bytes that
\* arrive behind it.
Parse_draw ==
    /\ pt.step = 0
    /\ \E input \in SeqsUpTo(MaxLen) :
         \E split \in 0..Len(input), extra \in {<<"h">>, <<"B", "N">>, <<"X">>} :
            pt' = [NoParse EXCEPT !.step = 1, !.input = input,
                                  !.split = split, !.extra = extra]
    /\ UNCHANGED <<conn_vars, srv, rd, hr, transfer, held, panicked, ltrace,
                   resp_vars>>

\* parse(first part)
Parse_first ==
    /\ pt.step = 1
    /\ pt' = [pt EXCEPT !.step = 2,
                        !.first = parse(SubSeq(pt.input, 1, pt.split))]
    /\ UNCHANGED <<conn_vars, srv, rd, hr, transfer, held, panicked, ltrace,
                   resp_vars>>

\* parse(whole buffer)
Parse_whole ==
    /\ pt.step = 2
    /\ pt' = [pt EXCEPT !.step = 3, !.whole = parse(pt.input)]
    /\ UNCHANGED <<conn_vars, srv, rd, hr, transfer, held, panicked, ltrace,
                   resp_vars>>

\* parse(whole buffer followed by further bytes)
Parse_more ==
    /\ pt.step = 3
    /\ pt' = [pt EXCEPT !.step = 4, !.more = parse(pt.input \o pt.extra)]
    /\ UNCHANGED <<conn_vars, srv, rd, hr, transfer, held, panicked, ltrace,
                   resp_vars>>

ParseNext == Parse_draw \/ Parse_first \/ Parse_whole \/ Parse_more

ParseSpec == Init /\ [][ParseNext]_vars

----------------------------------------------------------------------------
(* The body reader on its own over an in-memory reader, as in the tests of *)
(* read.rs.                                                                *)

MaxLine == 5

LineBytes == {"1", "f", " ", ";", "x", "CR", "LF"}

RECURSIVE LinesUpTo(_)
LinesUpTo(n) ==
    IF n = 0 THEN { <<>> }
    ELSE LET shorter == LinesUpTo(n - 1) IN
         shorter \cup { Append(q, b) : q \in shorter, b \in LineBytes }

\* Size lines of seventeen and of sixteen digits: 2^64, a number above it,
\* u64::MAX, and seventeen digits with a byte behind them that is no digit.
Run(b, n) == [i \in 1..n |-> b]

LongLines ==
    { <<"1">> \o Run("0", U64Digits) \o <<"CR", "LF">>,
      Run("f", U64Digits + 1) \o <<"CR", "LF">>,
      Run("f", U64Digits) \o <<"CR", "LF">>,
      Run("f", U64Digits + 1) \o <<"x", "CR", "LF">> }

\* The bytes of the underlying reader: &mut s.as_bytes()
Read_draw ==
    /\ rd.step = 0
    /\ \E input \in LinesUpTo(MaxLine) \cup LongLines :
         rd' = [NoRead EXCEPT !.step = 1, !.input = input]
    /\ UNCHANGED <<conn_vars, srv, pt, hr, transfer, held, panicked, ltrace,
                   resp_vars>>

\* read_chunk_size(&mut rdr)
Read_chunk_size ==
    /\ rd.step = 1
    /\ \E build \in Builds :
         rd' = [rd EXCEPT !.step = 2, !.build = build,
                          !.size = in_build(build, read_chunk_size(rd.input))]
    /\ UNCHANGED <<conn_vars, srv, pt, hr, transfer, held, panicked, ltrace,
                   resp_vars>>

ReadNext == Read_draw \/ Read_chunk_size

ReadSpec == Init /\ [][ReadNext]_vars

----------------------------------------------------------------------------
(* An HttpReader on its own over an in-memory reader, as in                *)
(* test_read_sized_early_eof and test_read_chunked_early_eof.              *)

MaxReads == 4
MaxStream == 4
MaxDeclared == 3
MaxBuf == 3

StreamBytes == <<"a", "b", "c", "d", "e", "f">>

\* What the underlying reader of a SizedReader holds: the body and whatever
\* follows it, or less than the body.
SizedStreams == { SubSeq(StreamBytes, 1, k) : k \in 0..MaxStream }

\* The chunked encoding of a list of chunks, as HttpWriter::ChunkedWriter
\* writes it, followed by the first byte of the next message.
RECURSIVE chunked_frames(_)
chunked_frames(ps) ==
    IF ps = <<>> THEN <<>>
    ELSE HttpWriter_write(ChunkedWriter, Head(ps)).emit \o chunked_frames(Tail(ps))

ChunkLists ==
    { <<>>, << <<"a">> >>, << <<"a", "b">> >>, << <<"a">>, <<"b">> >> }

Prefixes(q) == { SubSeq(q, 1, k) : k \in 0..Len(q) }

\* What the underlying reader of a ChunkedReader holds: a chunked body and
\* the byte after it, or any part of that cut off by the end of the input.
ChunkedStreams ==
    UNION { Prefixes(chunked_frames(ps)
                       \o HttpWriter_write(ChunkedWriter, <<>>).emit
                       \o <<"G">>) : ps \in ChunkLists }

\* HttpReader::SizedReader(rdr, n)
Sized_new ==
    /\ hr.kind = "none"
    /\ \E input \in SizedStreams, n \in 0..MaxDeclared :
         hr' = [NoReader EXCEPT !.kind = "Sized", !.input = input,
                                !.declared = n, !.body = input, !.rem = n]
    /\ UNCHANGED <<conn_vars, srv, pt, rd, transfer, held, panicked, ltrace,
                   resp_vars>>

\* HttpReader::ChunkedReader(rdr, None)
Chunked_new ==
    /\ hr.kind = "none"
    /\ \E input \in ChunkedStreams :
         hr' = [NoReader EXCEPT !.kind = "Chunked", !.input = input,
                                !.body = input, !.rem = -1]
    /\ UNCHANGED <<conn_vars, srv, pt, rd, transfer, held, panicked, ltrace,
                   resp_vars>>

\* r.read(&mut buf) on a SizedReader
Sized_read ==
    /\ hr.kind = "Sized"
    /\ Len(hr.reads) < MaxReads
    /\ \E n \in 0..MaxBuf :
         LET x == SizedReader_read([body |-> hr.body, rem |-> hr.rem], n) IN
         hr' = [hr EXCEPT !.body = x.r.body, !.rem = x.r.rem,
                          !.reads = Append(@, [n |-> n, res |-> x.res,
                                               data |-> x.data,
                                               rem |-> hr.rem,
                                               touched |-> x.touched])]
    /\ UNCHANGED <<conn_vars, srv, pt, rd, transfer, held, panicked, ltrace,
                   resp_vars>>

\* r.read(&mut buf) on a ChunkedReader
Chunked_read ==
    /\ hr.kind = "Chunked"
    /\ Len(hr.reads) < MaxReads
    /\ \E n \in 0..MaxBuf, build \in Builds :
         LET x == ChunkedReader_read([body |-> hr.body, rem |-> hr.rem], n,
                                     build)
         IN  hr' = [hr EXCEPT !.body = x.r.body, !.rem = x.r.rem,
                              !.reads = Append(@, [n |-> n, res |-> x.res,
                                                   data |-> x.data,
                                                   rem |-> hr.rem,
                                                   touched |-> hr.rem # 0])]
    /\ UNCHANGED <<conn_vars, srv, pt, rd, transfer, held, panicked, ltrace,
                   resp_vars>>

BodyNext == Sized_new \/ Chunked_new \/ Sized_read \/ Chunked_read

BodySpec == Init /\ [][BodyNext]_vars

----------------------------------------------------------------------------
(* Helpers of the properties.                                              *)

\* The step is an on_data event.
OnDataStep == events' = events + 1

\* The step is a claim() of the Lend-only specification.
ClaimStep ==
    /\ Len(ltrace') = Len(ltrace) + 1
    /\ ltrace'[Len(ltrace')] \in {"claim:some", "claim:none"}

Holders == (IF transfer.tag = "Owned" THEN 1 ELSE 0) + held + transfer.chan

IncomingCalls == Cardinality({ i \in 1..Len(calls) : calls[i].op = "on_incoming" })

\* The payloads of the first k write calls, concatenated.
RECURSIVE Written(_)
Written(k) == IF k = 0 THEN <<>> ELSE Written(k - 1) \o w_hist[k].msg

\* The bytes the first k write calls gave to the inner writer.
RECURSIVE Emitted(_)
Emitted(k) == IF k = 0 THEN <<>> ELSE Emitted(k - 1) \o w_hist[k].emit

\* The terminating chunk: 0 CRLF CRLF.
Terminator == <<"0", "CR", "LF", "CR", "LF">>

\* The buffer sizes the decoder is run with.
ReadBufs == {1, 3, 64}

\* The writer was finished, by end() or by drop.
Finished == writer.live \in {"ended", "dropped"}

----------------------------------------------------------------------------
(* The properties.                                                         *)

\* C1 (Lease exclusion): over any sequence of lease(), Lease drop and
\* claim(), a claim() made while the Lease is outstanding returns none and
\* leaves the Lend Lent, and a claim() made once the Lease has been dropped
\* returns the Transfer and leaves the Lend Owned.
C1_LeaseExclusion ==
    [][ ClaimStep =>
          /\ held > 0 =>
                /\ ltrace'[Len(ltrace')] = "claim:none"
                /\ transfer'.tag = "Lent"
          /\ held = 0 =>
                /\ ltrace'[Len(ltrace')] = "claim:some"
                /\ transfer'.tag = "Owned"
                /\ transfer'.chan = 0 ]_vars

\* C1 witness: a claim() during the lease returned none, and the first
\* claim() after the drop returned the Transfer.
C1_Witness ==
    /\ ltrace = <<"lease", "claim:none", "drop", "claim:some">>
    /\ transfer = Owned

\* C2 (Single holder): the Transfer is held exactly once - by the Lend, by
\* the one outstanding Lease, or by the return channel; there are never two
\* Leases; the connection closes the Transfer only while it owns it and
\* never writes to it.
C2_SingleHolder ==
    /\ Holders = 1
    /\ held <= 1
    /\ transfer.chan <= 1
    /\ last.closes > 0 => ~last.lent
    /\ last.wrote = <<>>

\* C2 witness: a Lease was dropped and the Transfer sits in the return
\* channel while the connection is still Lent.
C2_Witness ==
    /\ transfer = [tag |-> "Lent", chan |-> 1]
    /\ held = 0
    /\ state = "Handling"

\* C3 (No re-parse, one handler call per request): the parser is only given
\* the bytes after the cursor followed by the new chunk, and there are never
\* more on_incoming calls than request heads delivered.
C3_NoReparse ==
    [][ OnDataStep =>
          /\ last'.parsed =>
                last'.input = from_offset(buffer, position) \o last'.data
          /\ Cardinality({ i \in 1..Len(calls') : calls'[i].op = "on_incoming" })
                <= heads_in' ]_vars

\* C4 (Parsing waits for the handler): while the Lease of the previous
\* request is outstanding, on_data neither invokes the parser nor calls
\* handler.on_incoming.
C4_NoParseWhileLeased ==
    last.lent => (~last.parsed /\ ~last.incoming)

\* C5 (Closed is terminal): an on_data that arrives in Closed changes
\* nothing - no state change, no buffer change, no parser run, no handler
\* call, no Lease.
C5_ClosedTerminal ==
    [][ (OnDataStep /\ state = "Closed") =>
          /\ state' = "Closed"
          /\ buffer' = buffer
          /\ position' = position
          /\ ~last'.parsed
          /\ calls' = calls
          /\ held' = held
          /\ panicked' = "none" ]_vars

\* C6 (Keep-alive reset): an on_data that arrives in Handling after the
\* Lease was dropped reclaims the Transfer, takes the Parsing arm, appends
\* the chunk to the parse buffer and gives that buffer to the parser, and
\* does not call handler.on_body.
C6_KeepAliveReset ==
    [][ (OnDataStep /\ state = "Handling"
                    /\ transfer.tag = "Lent" /\ transfer.chan > 0) =>
          /\ last'.claimed
          /\ ~last'.lent
          /\ last'.path = "Parsing"
          /\ buffer' = buffer \o last'.data
          /\ last'.parsed
          /\ last'.input = buffer'
          /\ last'.used = -1
          /\ \A i \in (Len(calls) + 1)..Len(calls') : calls'[i].op # "on_body" ]_vars

\* C6 witness: an on_data found the connection in Handling with the Lease
\* returned, and ran the parser on a chunk that was not empty.
C6_Witness ==
    /\ last.from = "Handling"
    /\ last.returned
    /\ last.path = "Parsing"
    /\ last.parsed
    /\ last.data # <<>>

\* C7 (Parse error closes the connection): when the parser returns Err the
\* connection owns the Transfer, closes it exactly once and is Closed, and
\* handler.on_incoming was not called.
C7_ParseErrorCloses ==
    last.result = "Err" =>
        /\ ~last.lent
        /\ last.closes = 1
        /\ state = "Closed"
        /\ ~last.incoming
        /\ panicked = "none"

\* C8 (Error responses): when the parser returns Err the connection writes a
\* response with status 400 (Method, Uri, Version, Header) or 413 (TooLarge)
\* and Connection: close, and closes the Transfer.
C8_ErrorResponse ==
    last.result = "Err" =>
        /\ last.wrote = << [status |-> IF last.err = "TooLarge" THEN 413 ELSE 400,
                            connection |-> "close"] >>
        /\ last.closes = 1

\* C9 (Parse buffer bound): an incomplete parse with more than
\* MAX_BUFFER_SIZE bytes in the buffer fails with TooLarge and leaves the
\* connection Closed, so no later on_data can grow that buffer further.
C9_BufferBound ==
    (last.result = "None" /\ len(last.input) > MAX_BUFFER_SIZE) =>
        /\ state = "Closed"
        /\ last.err = "TooLarge"

\* C10 (Piggybacked body bytes): when a chunk completes a head and bytes
\* follow it in the buffer, the same on_data calls handler.on_incoming and
\* then handler.on_body with exactly those bytes.
C10_Piggyback ==
    (last.incoming /\ len(buffer) > position) =>
        /\ Len(calls) >= 2
        /\ calls[Len(calls) - 1].op = "on_incoming"
        /\ calls[Len(calls)] = [op |-> "on_body",
                                arg |-> from_offset(buffer, position)]

\* C11 (Tail handoff in Handling): when on_data forwards a chunk to
\* handler.on_body and the handler used fewer bytes than the chunk has, the
\* parse buffer afterwards is exactly the unused tail of the chunk, the cursor
\* is 0 and the state is Parsing; when it used all of them (or more) the state
\* stays Handling and the parse buffer and cursor are as they were.
C11_TailHandoff ==
    [][ (OnDataStep /\ last'.path = "Handling") =>
          IF last'.used < len(last'.data)
          THEN /\ \E k \in 0..Len(last'.data) :
                    /\ len(SubSeq(last'.data, 1, k)) = last'.used
                    /\ buffer' = SubSeq(last'.data, k + 1, Len(last'.data))
               /\ position' = 0
               /\ state' = "Parsing"
          ELSE /\ state' = "Handling"
               /\ buffer' = buffer
               /\ position' = position ]_vars

\* A chunk whose first byte the handler used: the tail is the next request.
C11_Witness ==
    /\ last.path = "Handling"
    /\ last.data = <<"h", "B", "N">>
    /\ last.used = 1
    /\ state = "Parsing"
    /\ buffer = <<"B", "N">>
    /\ position = 0

\* C12 (Head exactly once, before any body): whatever the handler does with
\* a Response (set-up, start, send, write, end, or nothing at all) before it
\* is dropped, the head is written exactly once, and it is written before
\* any body byte or chunk frame. (A response taken apart by deconstruct()
\* is not dropped and is outside the claim.)
C12_HeadOnce ==
    /\ Len(heads) <= 1
    /\ resp.phase \in {"Streaming", "dropped"} => Len(heads) = 1
    /\ (out # <<>> /\ resp.how # "deconstruct") => Len(heads) = 1
    /\ \A i \in 1..Len(heads) : heads[i].at = 0

\* A started response that wrote two chunks and was dropped.
C12_Witness ==
    /\ resp.phase = "dropped"
    /\ resp.was = "Streaming"
    /\ resp.how = "drop"
    /\ writer.kind = "Chunked"
    /\ Len(w_hist) = 2
    /\ w_hist[1].msg # <<>>
    /\ Len(heads) = 1

\* C13 (Framing chosen by start()): after start(), if the head carries a
\* Content-Length v the body writer is Sized(v) and the head carries no
\* chunked Transfer-Encoding; otherwise the body writer is Chunked and the
\* head's Transfer-Encoding includes chunked.
C13_Framing ==
    (resp.phase = "Streaming" /\ Len(heads) = 1) =>
        LET h == heads[1].headers IN
        IF h.cl >= 0
        THEN /\ writer.kind = "Sized"
             /\ writer.cap = h.cl
             /\ ~InSeq(h.te, "chunked")
        ELSE /\ writer.kind = "Chunked"
             /\ InSeq(h.te, "chunked")

\* C14 (Fresh drop): dropping a Response that is still Fresh writes one head
\* with Content-Length 0, whatever Content-Length the handler had set, and
\* with the status the handler set, and writes no body byte and no chunk
\* terminator; what was written is a complete empty response: the head
\* announces no chunked body, whose terminator would have to follow.
C14_FreshDrop ==
    [][ (resp.phase = "Fresh" /\ resp'.phase = "dropped"
         /\ resp'.how = "drop") =>
          /\ Len(heads') = 1
          /\ heads'[1].headers.cl = 0
          /\ ~InSeq(heads'[1].headers.te, "chunked")
          /\ heads'[1].status = resp.status
          /\ heads'[1].version = resp.version
          /\ resp'.headers.cl = 0
          /\ out' = <<>>
          /\ w_hist' = <<>> ]_vars

\* C15 (Chunked terminator exactly once, last): once a Chunked writer is
\* finished, by end() or by drop, the stream it emitted is what the writes
\* emitted followed by one terminating chunk, and no write emitted a
\* terminating chunk.
C15_TerminatorOnce ==
    (writer.kind = "Chunked" /\ Finished) =>
        /\ out = Emitted(Len(w_hist)) \o Terminator
        /\ \A i \in 1..Len(w_hist) : w_hist[i].emit # Terminator

\* C16 (Zero-length chunked write): a write of no bytes on a Chunked writer
\* emits nothing and returns 0.
C16_EmptyWriteNoop ==
    writer.kind = "Chunked" =>
        \A i \in 1..Len(w_hist) :
            w_hist[i].msg = <<>> =>
                /\ w_hist[i].emit = <<>>
                /\ w_hist[i].ret = 0

\* C17 (Chunked round trip): the stream of a finished Chunked writer, decoded
\* as ChunkedReader decodes it, gives back the concatenation of the payloads
\* written, empty payloads included.
C17_RoundTrip ==
    (writer.kind = "Chunked" /\ Finished) =>
        \A n \in ReadBufs, build \in Builds :
            LET d == decode_chunked(out, n, build) IN
            /\ d.res = "Ok"
            /\ d.data = Written(Len(w_hist))

\* C18 (Sized truncation): a Sized writer built with N has emitted the first
\* min(N, M) bytes of the M bytes written to it; every write returned
\* min(remaining, len); remaining is never negative and emitted + remaining
\* is N.
C18_SizedTruncation ==
    (writer.kind = "Sized" /\ writer.live # "no") =>
        LET input == Written(Len(w_hist)) IN
        /\ out = SubSeq(input, 1, Min(writer.cap, Len(input)))
        /\ \A i \in 1..Len(w_hist) :
              w_hist[i].ret = Min(w_hist[i].rem, Len(w_hist[i].msg))
        /\ writer.rem >= 0
        /\ Len(out) + writer.rem = writer.cap

\* A Sized(3) writer that cut a write short and refused the next one.
C18_Witness ==
    /\ writer.kind = "Sized"
    /\ writer.cap = 3
    /\ Len(w_hist) = 3
    /\ w_hist[1].msg = <<"a">>
    /\ w_hist[2].msg = <<"0", "CR", "LF">>
    /\ w_hist[2].ret = 2
    /\ w_hist[3].msg = <<"a">>
    /\ w_hist[3].ret = 0
    /\ out = <<"a", "0", "CR">>

\* C19 (Under-filled Sized body forces close): a Streaming response dropped
\* while its Sized writer still expects bytes has called Transfer::close().
C19_UnderfilledCloses ==
    (resp.phase = "dropped" /\ resp.was = "Streaming"
     /\ writer.kind = "Sized" /\ writer.rem > 0) =>
        Len(t_closes) >= 1

\* C20 (Close on non-keep-alive): a dropped Response, Fresh or Streaming, has
\* called Transfer::close() if and only if should_keep_alive of its version
\* and headers is false; close() is called at most once, and not before the
\* drop. (A handler that takes the Response apart with deconstruct() holds
\* the Transfer itself; what it does with it is outside the claim.)
C20_CloseIffNotKeepAlive ==
    /\ resp.how # "deconstruct" => Len(t_closes) <= 1
    /\ (resp.phase # "dropped" /\ resp.how # "deconstruct") => t_closes = <<>>
    /\ resp.phase = "dropped" =>
          (Len(t_closes) = 1 <=> ~should_keep_alive(resp.version, resp.headers))

\* An HTTP/1.1 response with Connection: close, started and dropped.
C20_Witness ==
    /\ resp.phase = "dropped"
    /\ resp.was = "Streaming"
    /\ resp.how = "end"
    /\ resp.version = "Http11"
    /\ resp.headers.conn.set
    /\ "close" \in resp.headers.conn.opts
    /\ Len(t_closes) = 1

\* C21 (Keep-alive predicate): for version 1.0 or 1.1 and a Connection header
\* that is absent, keep-alive or close, should_keep_alive is false exactly
\* when the version is 1.0 and Connection is absent or lacks keep-alive, or
\* the version is 1.1 and Connection contains close.  Checked on the version
\* and headers of every dropped Response, where Drop applied it.
C21_KeepAliveTable ==
    (/\ resp.phase = "dropped"
     /\ resp.version \in {"Http10", "Http11"}
     /\ resp.headers.conn \in { NoConnection,
                                [set |-> TRUE, opts |-> {"keep-alive"}],
                                [set |-> TRUE, opts |-> {"close"}] }) =>
        LET c == resp.headers.conn
            no_keep_alive ==
                \/ /\ resp.version = "Http10"
                   /\ (~c.set \/ "keep-alive" \notin c.opts)
                \/ /\ resp.version = "Http11"
                   /\ c.set
                   /\ "close" \in c.opts
        IN  /\ should_keep_alive(resp.version, resp.headers) = ~no_keep_alive
            /\ (t_closes = <<>>) = ~no_keep_alive

\* An HTTP/1.0 response with Connection: keep-alive, dropped and kept alive.
C21_Witness ==
    /\ resp.phase = "dropped"
    /\ resp.version = "Http10"
    /\ resp.headers.conn = [set |-> TRUE, opts |-> {"keep-alive"}]
    /\ should_keep_alive(resp.version, resp.headers)
    /\ t_closes = <<>>

\* C22 (send): send(bytes) on a Fresh response leaves one head whose
\* Content-Length is len(bytes), whatever the handler had set, a body that is
\* exactly bytes with no chunk framing, and a Sized writer with remaining 0
\* when the response is dropped.
C22_Send ==
    resp.how = "send" =>
        /\ resp.phase = "dropped"
        /\ Len(w_hist) = 1
        /\ Len(heads) = 1
        /\ heads[1].headers.cl = Len(w_hist[1].msg)
        /\ heads[1].at = 0
        /\ out = w_hist[1].msg
        /\ w_hist[1].ret = Len(w_hist[1].msg)
        /\ writer.kind = "Sized"
        /\ writer.cap = Len(w_hist[1].msg)
        /\ writer.rem = 0

\* send() of two bytes.
C22_Witness ==
    /\ resp.how = "send"
    /\ w_hist = << [msg |-> <<"0", "a">>, ret |-> 2, emit |-> <<"0", "a">>,
                    rem |-> 2] >>
    /\ out = <<"0", "a">>
    /\ heads[1].headers.cl = 2
    /\ writer.rem = 0

\* C23 (Expect: 100-continue): before the server hands an HTTP/1.1 request
\* that carries Expect: 100-continue to handler.handle, it has called
\* handler.check_continue for that request.
C23_ExpectContinue ==
    \A i \in 1..Len(srv.calls) :
        (/\ srv.calls[i].op = "handle"
         /\ srv.calls[i].req.version = "Http11"
         /\ srv.calls[i].req.headers.expect) =>
            /\ i > 1
            /\ srv.calls[i - 1] = [op |-> "check_continue",
                                   req |-> srv.calls[i].req]

\* The buffer is exactly one valid head: a request line, header lines, and
\* the empty line as LF or CR LF.
ValidHead(buf) ==
    /\ buf # <<>>
    /\ buf[Len(buf)] = "N"
    /\ \E m \in 1..(Len(buf) - 1) :
          /\ buf[m] \in Methods
          /\ \A i \in 1..(m - 1) : buf[i] = "c"
          /\ \A i \in (m + 1)..(Len(buf) - 1) :
                \/ buf[i] \in {"h", "K"}
                \/ buf[i] = "c" /\ buf[i + 1] \in {"c", "h", "K"}
                \/ buf[i] = "n" /\ i = Len(buf) - 1

\* C24 (Incremental parse): when a valid head arrives split in two at any
\* byte (inside the request line, inside a header line, between the CR and
\* the LF of the empty line, or between lines), parse on
\* the first part alone answers Ok(None) and parse on the whole answers
\* Ok(Some) with that head and all of its bytes consumed; further bytes
\* behind the complete head change neither the head nor consumed.
C24_IncrementalParse ==
    ValidHead(pt.input) =>
        /\ (pt.step >= 2 /\ pt.split < Len(pt.input)) => pt.first = NoResult
        /\ pt.step >= 3 =>
              pt.whole = [tag |-> "Some", head |-> pt.input,
                          len |-> len(pt.input), err |-> "none"]
        /\ pt.step >= 4 => pt.more = pt.whole

\* A head with a request line of two bytes, split between the CR and the
\* LF of its empty line, parsed three times.
C24_Witness ==
    /\ pt.step = 4
    /\ pt.input = <<"c", "A", "n", "N">>
    /\ pt.split = 3
    /\ pt.extra = <<"B", "N">>
    /\ ValidHead(pt.input)
    /\ pt.first.tag = "None"
    /\ pt.whole.tag = "Some"
    /\ pt.more.len = 4

\* The parse result r of buffer buf, when Ok(Some), has consumed at the
\* first byte after the empty line that ends the header block: the first
\* empty line behind the request line, which starts at element a after any
\* empty lines in front of it.
ConsumedAtBody(buf, r) ==
    r.tag = "Some" =>
        \E a \in 1..Len(buf), k \in 1..Len(buf) :
            /\ a < k
            /\ \A j \in 1..(a - 1) : buf[j] \in {"N", "n"}
            /\ buf[k] = "N"
            /\ \A j \in a..(k - 1) : buf[j] # "N"
            /\ r.len = len(SubSeq(buf, 1, k))
            /\ from_offset(buf, r.len) = SubSeq(buf, k + 1, Len(buf))
            /\ 0 < r.len
            /\ r.len <= len(buf)

\* C25 (Consumed offset): whenever parse answers Ok(Some((head, consumed))),
\* consumed is the offset of the first byte after the empty line that ends
\* the head, and 0 < consumed <= len(buffer).
C25_ConsumedOffset ==
    /\ pt.step >= 2 => ConsumedAtBody(SubSeq(pt.input, 1, pt.split), pt.first)
    /\ pt.step >= 3 => ConsumedAtBody(pt.input, pt.whole)
    /\ pt.step >= 4 => ConsumedAtBody(pt.input \o pt.extra, pt.more)

\* A head of two bytes parsed with a body byte behind it.
C25_Witness ==
    /\ pt.step = 4
    /\ pt.input = <<"A", "N">>
    /\ pt.extra = <<"h">>
    /\ pt.more.tag = "Some"
    /\ pt.more.len = 2

HexBytes == {"0", "1", "2", "3", "4", "5", "6", "7", "8", "9",
             "a", "b", "c", "d", "e", "f", "A", "B", "C", "D", "E", "F"}

\* The number a run of hexadecimal digits writes, of any length: its
\* digits as numbers, without leading zeros.
HexNumber(ds) == u64_strip([i \in 1..Len(ds) |-> HexVal(ds[i])])

\* line is d hexadecimal digits, spaces or tabs up to element w, then
\* nothing or ";" and bytes other than CR, then CRLF.
ExtLine(line, d, w) ==
    /\ 1 <= d
    /\ d <= w
    /\ w <= Len(line) - 2
    /\ \A i \in 1..d : line[i] \in HexBytes
    /\ \A i \in (d + 1)..w : line[i] \in LWS
    /\ w < Len(line) - 2 => line[w + 1] = ";"
    /\ \A i \in (w + 1)..(Len(line) - 2) : line[i] # "CR"
    /\ line[Len(line) - 1] = "CR"
    /\ line[Len(line)] = "LF"

\* C26 (Chunk extensions): for a chunk-size line of hexadecimal digits,
\* optional spaces or tabs, an optional extension (";" and any bytes but CR)
\* and CRLF, read_chunk_size answers Ok with the value of the digits and has
\* read the whole line; the extension changes neither. The value is that of
\* the digits as written, however many there are.
C26_ChunkExtensions ==
    rd.step = 2 =>
        \A d \in 1..Len(rd.input), w \in 1..Len(rd.input) :
            ExtLine(rd.input, d, w) =>
                rd.size = [res |-> "Ok",
                           size |-> HexNumber(SubSeq(rd.input, 1, d)),
                           rest |-> <<>>]

\* C27 (Keep-alive liveness): when the handler has dropped the Lease of a
\* request whose bytes were all consumed, and a chunk then delivers the
\* complete head of the next request, that on_data ends in Handling with
\* handler.on_incoming called on the head of the next request.
C27_NextRequestHandled ==
    [][ (/\ OnDataStep
         /\ last'.returned
         /\ position = len(buffer)
         /\ ValidHead(last'.data)) =>
          /\ state' = "Handling"
          /\ calls' = Append(calls, [op |-> "on_incoming",
                                     arg |-> last'.data]) ]_vars

\* C28 (Response complete before reclaim): when claim() at the top of
\* on_data takes the Transfer back from a dropped Lease, the Response is
\* gone and its head, its body frames and, for a Chunked body, the
\* terminator were written before, and that on_data writes nothing more of
\* it; the Lease is in the return channel only after the Response was
\* dropped, and at most one is.
C28_CompleteBeforeReclaim ==
    [][ /\ transfer'.chan <= 1
        /\ transfer'.chan > 0 => (resp'.phase = "dropped" /\ held' = 0)
        /\ (OnDataStep /\ last'.returned) =>
              /\ resp.phase = "dropped"
              /\ writer.live = "dropped"
              /\ Len(heads) = 1
              /\ heads[1].at = 0
              /\ out = Emitted(Len(w_hist))
                         \o (IF writer.kind = "Chunked" THEN Terminator
                             ELSE <<>>)
              /\ UNCHANGED <<resp, writer, out, heads, t_closes>> ]_vars

\* C29 (No write after close): once a response that is not kept alive is
\* finalized, every Transfer::close() it made came after all of its bytes,
\* the terminator of a Chunked writer included: nothing was written after
\* the close.
C29_NoWriteAfterClose ==
    resp.phase = "dropped" =>
        \A i \in 1..Len(t_closes) : t_closes[i].at = Len(out)

\* C30 (on_data never panics): whatever chunks arrive, whatever on_body
\* returns and whenever the Lease is dropped, no on_data unwinds: not with
\* "already leased" from lease(), not with "lost transfer" from the error
\* path, not from the unimplemented Closed arm.
C30_NeverPanics ==
    panicked \notin {"already leased", "lost transfer", "not yet implemented"}

\* C31 (Incomplete parse is a pure buffer append): an on_data whose
\* Parsing arm gets Ok(None) from the parser leaves the state Parsing, calls
\* no handler method, issues no Lease, neither writes to nor closes the
\* Transfer, and leaves the parse buffer equal to its previous contents
\* followed by the chunk.
C31_IncompleteAppends ==
    [][ (OnDataStep /\ last'.path = "Parsing" /\ last'.result = "None") =>
          /\ state' = "Parsing"
          /\ calls' = calls
          /\ held' = held
          /\ transfer'.tag = claim(transfer).lend.tag
          /\ closes' = closes
          /\ last'.closes = 0
          /\ last'.wrote = <<>>
          /\ ~last'.incoming
          /\ panicked' = "none"
          /\ buffer' = buffer \o last'.data
          /\ position' = position ]_vars

\* A second partial chunk was appended to a non-empty buffer.
C31_Witness ==
    /\ last.path = "Parsing"
    /\ last.result = "None"
    /\ last.data = <<"h">>
    /\ buffer = <<"A", "h">>
    /\ state = "Parsing"
    /\ calls = <<>>

\* C32 (Pipelined tail survives the transition): when the previous on_data
\* ran on_body, which left a tail unused, the parser is run by the next
\* on_data on exactly that tail followed by the new chunk: nothing of the
\* tail is lost, doubled or moved, and nothing of the previous request
\* comes before it.
C32_TailSurvives ==
    [][ (OnDataStep /\ last.path = "Handling"
                    /\ len(last.data) > last.used) =>
          /\ last'.path = "Parsing"
          /\ last'.parsed
          /\ last'.input = from_offset(last.data, last.used) \o last'.data ]_vars

\* The tail of a body chunk, the head of the second request, was parsed by
\* the next on_data and given to on_incoming.
C32_Witness ==
    /\ events = 3
    /\ last.path = "Parsing"
    /\ last.data = <<>>
    /\ last.input = <<"B", "N">>
    /\ last.incoming
    /\ Len(calls) = 3
    /\ calls[2] = [op |-> "on_body", arg |-> <<"h", "B", "N">>]
    /\ calls[3] = [op |-> "on_incoming", arg |-> <<"B", "N">>]

\* C33 (Transfer-Encoding is not duplicated): after start() chose Chunked
\* framing, the Transfer-Encoding header of the head that was written lists
\* chunked exactly once, as its last coding, whatever Transfer-Encoding the
\* handler had set.
C33_ChunkedOnce ==
    (resp.phase = "Streaming" /\ resp.how = "none" /\ writer.kind = "Chunked") =>
        /\ Len(heads) = 1
        /\ LET te == heads[1].headers.te IN
            /\ Len(te) >= 1
            /\ te[Len(te)] = "chunked"
            /\ Cardinality({ i \in 1..Len(te) : te[i] = "chunked" }) = 1
            /\ resp.headers.te = te

\* The part of a line before its first CR (the whole line when it has
\* none).
BeforeCR(line) ==
    IF InSeq(line, "CR")
    THEN SubSeq(line, 1, (CHOOSE i \in 1..Len(line) :
                            /\ line[i] = "CR"
                            /\ \A j \in 1..(i - 1) : line[j] # "CR") - 1)
    ELSE line

\* Element i of the line lies outside an extension: no ";" comes before it.
OutsideExt(line, i) == \A j \in 1..(i - 1) : line[j] # ";"

\* The four malformations of a chunk-size line: the input ends before a
\* CRLF; the first CR is not followed by LF; outside an extension a byte is
\* neither a hexadecimal digit, a space or tab, nor ";"; outside an
\* extension a hexadecimal digit follows a space or tab.
MalformedLine(line) ==
    LET b == BeforeCR(line) IN
    \/ ~InSeq(line, "CR")
    \/ Len(b) + 2 > Len(line)
    \/ line[Len(b) + 2] # "LF"
    \/ \E i \in 1..Len(b) :
          /\ OutsideExt(b, i)
          /\ b[i] \notin HexBytes \cup LWS \cup {";"}
    \/ \E i \in 1..Len(b), j \in 1..Len(b) :
          /\ i < j
          /\ OutsideExt(b, j)
          /\ b[i] \in LWS
          /\ b[j] \in HexBytes

\* C34 (Malformed size lines): read_chunk_size answers Err(InvalidInput),
\* and no size, for a line with a byte that is no hexadecimal digit in the
\* size position, with a hexadecimal digit or another non-space byte after
\* white space outside an extension, with a CR that LF does not follow, or
\* with the input ending before CRLF, however many digits come before the
\* malformation and in every build.
C34_MalformedRejected ==
    (rd.step = 2 /\ MalformedLine(rd.input)) =>
        /\ rd.size.res = "InvalidInput"
        /\ rd.size.size = u64(0)

\* C35 (A size line starts with a hexadecimal digit): read_chunk_size
\* answers an error, never a size, for a line whose first byte is no
\* hexadecimal digit, a bare CRLF included.
C35_DigitRequired ==
    (rd.step = 2 /\ (rd.input = <<>> \/ rd.input[1] \notin HexBytes)) =>
        rd.size.res # "Ok"

\* The step is a read call on the HttpReader.
ReadStep == Len(hr'.reads) = Len(hr.reads) + 1

\* The bytes the first k read calls returned, concatenated.
RECURSIVE Delivered(_)
Delivered(k) ==
    IF k = 0 THEN <<>> ELSE Delivered(k - 1) \o hr.reads[k].data

\* What was taken from the underlying reader so far.
Consumed == SubSeq(hr.input, 1, Len(hr.input) - Len(hr.body))

IsPayload(b) == b \in {"a", "b"}

\* The ChunkedReader is inside a chunk: it knows a remaining size above 0,
\* or the next chunk-size line is whole and announces one.
InChunk ==
    \/ hr.rem > 0
    \/ /\ hr.rem = -1
       /\ read_chunk_size(hr.body).res = "Ok"
       /\ read_chunk_size(hr.body).size # u64(0)

\* What the underlying reader holds when the chunk data is asked for.
AtChunkData ==
    IF hr.rem = -1 THEN read_chunk_size(hr.body).rest ELSE hr.body

\* Every read call made so far succeeded.
AllOk == \A i \in 1..Len(hr.reads) : hr.reads[i].res = "Ok"

\* C36 (Early EOF is an error): a read on a SizedReader with remaining > 0,
\* or on a ChunkedReader inside a chunk, for which the underlying reader
\* gives no bytes answers Err "early eof" and delivers nothing; when the
\* reads before it succeeded, they returned every body byte taken from the
\* underlying reader before the end of the input.
C36_EarlyEof ==
    [][ ReadStep =>
          LET e == hr'.reads[Len(hr'.reads)] IN
          /\ (hr.kind = "Sized" /\ hr.rem > 0
                 /\ (hr.body = <<>> \/ e.n = 0)) =>
                /\ e.res = "early eof"
                /\ e.data = <<>>
                /\ AllOk => Delivered(Len(hr.reads)) = Consumed
          /\ (hr.kind = "Chunked" /\ InChunk
                 /\ (AtChunkData = <<>> \/ e.n = 0)) =>
                /\ e.res = "early eof"
                /\ e.data = <<>>
                /\ AllOk => Delivered(Len(hr.reads))
                              = SelectSeq(Consumed, IsPayload) ]_vars

\* A SizedReader of 3 over "ab" returned 2 bytes and then "early eof".
C36_Witness ==
    /\ hr.kind = "Sized"
    /\ hr.declared = 3
    /\ hr.input = <<"a", "b">>
    /\ Len(hr.reads) = 2
    /\ hr.reads[1].res = "Ok"
    /\ hr.reads[1].data = <<"a", "b">>
    /\ hr.reads[2].n = 3
    /\ hr.reads[2].res = "early eof"

\* C37 (SizedReader never reads past the declared length): whatever reads
\* were made with whatever buffer sizes, a SizedReader made with length N
\* has taken at most N bytes from the underlying reader, all of them
\* returned in order; each read with remaining > 0 returns as many bytes as
\* the buffer, the remaining count and the underlying reader allow; with
\* remaining 0 it has returned exactly the first N bytes, and a read then
\* answers Ok(0) without a call of the underlying reader.
C37_SizedBound ==
    hr.kind = "Sized" =>
        /\ Len(Consumed) <= hr.declared
        /\ Len(Consumed) = hr.declared - hr.rem
        /\ Delivered(Len(hr.reads)) = Consumed
        /\ hr.rem = 0 =>
              Delivered(Len(hr.reads)) = SubSeq(hr.input, 1, hr.declared)
        /\ \A i \in 1..Len(hr.reads) :
              LET e == hr.reads[i] IN
              IF e.rem = 0
              THEN e.res = "Ok" /\ e.data = <<>> /\ ~e.touched
              ELSE Len(e.data) =
                     Min(Min(e.n, e.rem),
                         Len(hr.input) - Len(Delivered(i - 1)))

\* A SizedReader of 2 over "abcd" returned "ab", then Ok(0), and left "cd".
C37_Witness ==
    /\ hr.kind = "Sized"
    /\ hr.declared = 2
    /\ hr.input = <<"a", "b", "c", "d">>
    /\ Len(hr.reads) = 2
    /\ hr.reads[1].n = 3
    /\ hr.reads[1].data = <<"a", "b">>
    /\ hr.reads[2].n = 3
    /\ hr.reads[2].res = "Ok"
    /\ hr.reads[2].data = <<>>
    /\ ~hr.reads[2].touched
    /\ hr.body = <<"c", "d">>

\* C38 (ChunkedReader consumes the whole chunked body): when a ChunkedReader
\* over a whole chunked body answered Ok(0) after the 0-size chunk, with
\* every read before it successful, it has taken every byte of the encoding
\* from the underlying reader, the CRLF after the 0-size chunk line
\* included: what the underlying reader still holds is the next message.
C38_WholeBodyConsumed ==
    (/\ hr.kind = "Chunked"
     /\ Len(hr.input) > 0
     /\ hr.input[Len(hr.input)] = "G"
     /\ AllOk
     /\ Len(hr.reads) >= 1
     /\ hr.reads[Len(hr.reads)].data = <<>>) =>
        hr.body = <<"G">>

\* C39 (The response follows the request's keep-alive): the response
\* handle gives to the handler carries Connection: keep-alive when
\* should_keep_alive of the request is true and Connection: close otherwise;
\* and when the handler drops it with the version and the Connection header
\* it was given, the transport is closed exactly when the request did not
\* permit keep-alive.
C39_ResponseFollowsRequest ==
    [][ /\ (srv.phase = "parsing" /\ srv'.phase = "handling") =>
              /\ resp'.phase = "Fresh"
              /\ resp'.headers.conn.set
              /\ resp'.headers.conn.opts =
                    IF should_keep_alive(srv'.req.version, srv'.req.headers)
                    THEN {"keep-alive"} ELSE {"close"}
        /\ (/\ srv.phase \in {"handling", "stopped"}
            /\ resp.phase \in {"Fresh", "Streaming"}
            /\ resp'.phase = "dropped"
            /\ resp.version = "Http11"
            /\ resp.headers.conn.set
            /\ resp.headers.conn.opts =
                  IF should_keep_alive(srv.req.version, srv.req.headers)
                  THEN {"keep-alive"} ELSE {"close"}) =>
              /\ Len(t_closes') \in {0, 1}
              /\ Len(t_closes') = 1 <=>
                    ~should_keep_alive(srv.req.version, srv.req.headers) ]_vars

\* The response to an HTTP/1.0 request with Connection: keep-alive was
\* dropped as the handler got it, and the transport was left open.
C39_Witness ==
    /\ srv.phase = "parsing"
    /\ Len(srv.calls) = 1
    /\ srv.req.version = "Http10"
    /\ srv.req.headers.conn = [set |-> TRUE, opts |-> {"keep-alive"}]
    /\ resp.phase = "dropped"
    /\ resp.status = "Ok"
    /\ resp.version = "Http11"
    /\ resp.headers.conn = [set |-> TRUE, opts |-> {"keep-alive"}]
    /\ t_closes = <<>>

\* C40 (do_parse): after a chunk was appended, an incomplete head lets the
\* parsing go on exactly when the buffer is shorter than MAX_BUFFER_SIZE and
\* fails the parse with TooLarge otherwise; a parser error fails it with
\* that error; the end of the stream before a whole head fails it with
\* Incomplete; and a failed parse produces no Request: the handler is not
\* called.
C40_DoParse ==
    [][ (srv.phase = "parsing" /\ srv'.polls = srv.polls + 1) =>
          IF srv'.err = "Incomplete"
          THEN /\ srv'.phase = "failed"
               /\ srv'.buf = srv.buf
               /\ srv'.req = srv.req
               /\ srv'.calls = srv.calls
          ELSE \E bytes \in SrvChunks :
                 LET buf == srv.buf \o bytes
                     r   == parse(buf)
                 IN  CASE r.tag = "None" ->
                            /\ srv'.buf = buf
                            /\ IF len(buf) < MAX_BUFFER_SIZE
                               THEN /\ srv'.phase = "parsing"
                                    /\ srv'.err = "none"
                                    /\ srv'.calls = srv.calls
                                    /\ UNCHANGED resp_vars
                               ELSE /\ srv'.phase = "failed"
                                    /\ srv'.err = "TooLarge"
                                    /\ srv'.req = srv.req
                                    /\ srv'.calls = srv.calls
                       [] r.tag = "Err" ->
                            /\ srv'.buf = buf
                            /\ srv'.phase = "failed"
                            /\ srv'.err = r.err
                            /\ srv'.req = srv.req
                            /\ srv'.calls = srv.calls
                       [] r.tag = "Some" ->
                            /\ srv'.phase = "handling"
                            /\ srv'.err = "none"
                            /\ Len(srv'.calls) = Len(srv.calls) + 1 ]_vars

\* A buffer of one byte below the bound went on; one more byte made it
\* MAX_BUFFER_SIZE bytes long and the parse failed with TooLarge.
C40_Witness ==
    /\ srv.phase = "failed"
    /\ srv.err = "TooLarge"
    /\ srv.polls = 2
    /\ srv.buf = <<"A", "K", "h">>
    /\ len(srv.buf) = MAX_BUFFER_SIZE
    /\ srv.calls = <<>>
    /\ resp.status = "PayloadTooLarge"

====
